---- MODULE Spec2Model ----
(***************************************************************************)
(* Provider orchestration of codev-core: the adapter registry, the health  *)
(* cache, provider selection, one-shot generation with fallback, streaming *)
(* dispatch and manual switching (ai/manager.rs, ai/providers/mod.rs), and *)
(* the request cache of the engine (ai/engine.rs); the stages built over a *)
(* fragment stream (ai/streaming.rs) and the health check of the local     *)
(* adapter (ai/providers/ollama.rs).                                       *)
(*                                                                         *)
(* Adapters are modelled by the LlmProvider contract: what health_check    *)
(* and generate of each backend would return right now is the state of the *)
(* outside world (svc), which changes between calls.                       *)
(***************************************************************************)
EXTENDS Integers, Sequences, FiniteSets, TLC

\* ------------------------------------------------------------------ bounds
\* Longest fallback chain configured for a registry of one or two adapters.
MaxChainLen == 2
\* Seconds added to every cache entry's age by one Tick.
TickStep == 60
\* RequestCache.max_size (1000 in RequestCache::new), scaled down.
max_size == 1
\* Longest upstream sequence fed to a streaming stage.
MaxFragments == 3
\* Largest buffer_size given to TokenStream::with_buffer_size (bytes).
MaxBufferSize == 3
\* Largest max_tokens given to StreamUtils::take_tokens.
MaxTokens == 3
\* Largest tokens_per_second given to RateLimitedStream::new.
MaxRate == 3
\* Largest max_retries given to OllamaProvider::with_config.
MaxRetries == 4
\* Foreground health refreshes that hold an unstored verdict at the same time.
MaxRefreshes == 1

\* ------------------------------------------------------- program constants
\* health_check_interval: Duration::from_secs(60)
HealthCheckInterval == 60
\* 1000.0 in RateLimitedStream::new: the milliseconds of one second
MillisPerSecond == 1000

\* ------------------------------------------------------------ basic types
\* enum ProviderId; the local kind and two of the hosted kinds take part.
ProviderId == {"Ollama", "OpenAI", "Claude"}

None == "None"

\* HealthStatus::{Healthy, Degraded, Unhealthy}
HealthStatus == {"Healthy", "Degraded", "Unhealthy"}

\* What an adapter's health_check() returns: Ok(status) or Err(e).
ProbeOutcome == HealthStatus \cup {"Err"}

\* HealthStatus::is_available
is_available(status) == status # "Unhealthy"

\* HealthStatus::is_healthy
is_healthy(status) == status = "Healthy"

NoErr == [variant |-> "none", provider |-> None, message |-> ""]

\* The error an adapter itself returns (a CodevError built by the adapter).
AdapterError(p) == [variant |-> "Adapter", provider |-> None, message |-> "adapter call failed"]

\* AiError values used by the manager.
NoProviderAvailable == [kind |-> "NoProviderAvailable", provider |-> None]

ProviderNotAvailable(p) == [kind |-> "ProviderNotAvailable", provider |-> p]

\* impl From<AiError> for CodevError
FromAiError(e) ==
    IF e.kind = "ProviderNotAvailable"
    THEN [variant |-> "LlmProvider", provider |-> e.provider,
          message |-> "Provider not available"]
    ELSE [variant |-> "LlmProvider", provider |-> "Ollama",
          message |-> "no AI provider is currently available"]

\* Permutations of a finite set, as sequences.
Perms(S) ==
    {f \in [1..Cardinality(S) -> S] : \A x \in S : \E i \in 1..Cardinality(S) : f[i] = x}

\* Sequences over S without repetition, of length at most n.
Chains(S, n) ==
    UNION {{f \in [1..k -> S] : \A i, j \in 1..k : i # j => f[i] # f[j]} : k \in 0..n}

Range(s) == {s[i] : i \in 1..Len(s)}

\* The elements of a set with at most one element, as a sequence.
SetToSeq(S) == IF S = {} THEN <<>> ELSE <<CHOOSE x \in S : TRUE>>

VARIABLES
    providers,        \* ProviderRegistry.providers: the registered ids
    configs,          \* ProviderRegistry.configs: id -> enabled flag (registered ids)
    iter_order,       \* iteration order of the providers HashMap
    reg_order,        \* order in which register() was called
    fallback_chain,   \* LlmManager.fallback_chain
    environment,      \* LlmManager.environment
    current_provider, \* LlmManager.current_provider
    health_status,    \* LlmManager.health_status: id -> NoEntry or [status, elapsed]
    svc,              \* outside world: id -> [probe, gen]
    cache,            \* AiEngine.cache (RequestCache.cache): key -> response
    origin,           \* history: key -> the request whose response the entry holds
    clients,          \* process_request calls in flight: client -> [pc, request, text]
    pipe,             \* the streaming stage under poll: its state, upstream and output
    ollama,           \* the local adapter probed on its own: its server, its last verdict
    monitor,          \* the task spawned by start_health_monitoring: where its loop stands
    locks,            \* the RwLocks: name -> [readers, writer, queue]
    last              \* the call that has just returned, with what it did

vars == <<providers, configs, iter_order, reg_order, fallback_chain, environment,
          current_provider, health_status, svc, cache, origin, clients, pipe, ollama,
          monitor, locks, last>>

\* ---------------------------------------------------------------- registry
\* ProviderRegistry::get
registry_get(p) == IF p \in providers THEN p ELSE None

\* ProviderRegistry::is_enabled
registry_is_enabled(p) == IF p \in DOMAIN configs THEN configs[p] ELSE FALSE

\* ProviderRegistry::enabled_providers: map iteration order, filtered by config
enabled_providers == SelectSeq(iter_order, LAMBDA p : registry_is_enabled(p))

\* ------------------------------------------------------------ health cache
\* No entry for the id in the health_status map.
NoEntry == [status |-> "None", elapsed |-> 0]

\* The manager state threaded through one handler: the shared cells it
\* writes and the adapter calls it has made so far.
\*   cur     current_provider
\*   hs      health_status
\*   hq      is_provider_healthy calls: [id, hit, ans]
\*   probes  health_check calls: [id, outcome]
\*   gens    generate calls: [id, ok]
\*   streams stream_generate calls: [id, outcome]
MgrStart == [cur |-> current_provider, hs |-> health_status,
             hq |-> <<>>, probes |-> <<>>, gens |-> <<>>, streams |-> <<>>]

\* Result<HealthStatus> of the adapter folded as perform_health_check does.
FoldProbe(outcome) == IF outcome = "Err" THEN "Unhealthy" ELSE outcome

\* LlmManager::perform_health_check
perform_health_check(m, p) ==
    IF registry_get(p) # None
    THEN LET outcome == svc[p].probe
             status == FoldProbe(outcome)
         IN [st |-> [m EXCEPT !.hs[p] = [status |-> status, elapsed |-> 0],
                              !.probes = Append(@, [id |-> p, outcome |-> outcome])],
             ret |-> is_available(status)]
    ELSE [st |-> m, ret |-> FALSE]

\* Mutant of CacheFresh: an entry whose age has reached the interval still
\* counts as recent.
CacheFreshInclusive(hs, p) == hs[p] # NoEntry /\ hs[p].elapsed <= HealthCheckInterval

\* The cached entry is recent enough to be used.
CacheFresh(hs, p) == hs[p] # NoEntry /\ hs[p].elapsed < HealthCheckInterval

\* LlmManager::is_provider_healthy
is_provider_healthy(m, p) ==
    IF CacheFresh(m.hs, p)
    THEN [st |-> [m EXCEPT !.hq = Append(@, [id |-> p, hit |-> TRUE,
                                              ans |-> is_available(m.hs[p].status)])],
          ret |-> is_available(m.hs[p].status)]
    ELSE LET r == perform_health_check(m, p)
         IN [st |-> [r.st EXCEPT !.hq = Append(@, [id |-> p, hit |-> FALSE, ans |-> r.ret])],
             ret |-> r.ret]

\* ---------------------------------------------------------------- results
Ok(id, text) == [ok |-> TRUE, id |-> id, text |-> text, err |-> NoErr]

Err(e) == [ok |-> FALSE, id |-> None, text |-> None, err |-> e]

\* The text the adapter of p produces for a prompt.
Text(p, prompt) == p \o ":" \o prompt

\* --------------------------------------------------------------- selection
\* LlmManager::is_ollama_available (OllamaProvider::is_available is `true`)
is_ollama_available == registry_get("Ollama") # None

\* LlmManager::is_local_environment; codev_local: CODEV_LOCAL is set
is_local_environment(codev_local) ==
    environment = "Development" \/ codev_local \/ is_ollama_available

RECURSIVE select_any(_, _)
\* auto_select_provider, step 3: any enabled provider, in map iteration order
select_any(m, i) ==
    IF i > Len(enabled_providers)
    THEN [st |-> m, ret |-> Err(FromAiError(NoProviderAvailable))]
    ELSE LET p == enabled_providers[i]
             r == is_provider_healthy(m, p)
         IN IF r.ret
            THEN [st |-> [r.st EXCEPT !.cur = p], ret |-> Ok(p, None)]
            ELSE select_any(r.st, i + 1)

RECURSIVE select_chain_unchecked(_, _)
\* Mutant of select_chain: the first registered entry of the chain is taken
\* without asking the health cache.
select_chain_unchecked(m, i) ==
    IF i > Len(fallback_chain)
    THEN select_any(m, 1)
    ELSE IF registry_get(fallback_chain[i]) # None
         THEN [st |-> [m EXCEPT !.cur = fallback_chain[i]],
               ret |-> Ok(fallback_chain[i], None)]
         ELSE select_chain_unchecked(m, i + 1)

RECURSIVE select_chain(_, _)
\* auto_select_provider, step 2: the fallback chain
select_chain(m, i) ==
    IF i > Len(fallback_chain)
    THEN select_any(m, 1)
    ELSE LET p == fallback_chain[i]
         IN IF registry_get(p) # None
            THEN LET r == is_provider_healthy(m, p)
                 IN IF r.ret
                    THEN [st |-> [r.st EXCEPT !.cur = p], ret |-> Ok(p, None)]
                    ELSE select_chain(r.st, i + 1)
            ELSE select_chain(m, i + 1)

\* Mutant of auto_select_provider: the local-first step is left out.
select_without_local_step(m, codev_local) == select_chain(m, 1)

\* LlmManager::auto_select_provider
auto_select_provider(m, codev_local) ==
    IF (environment = "Development" \/ is_local_environment(codev_local))
       /\ registry_get("Ollama") # None
    THEN LET r == is_provider_healthy(m, "Ollama")
         IN IF r.ret
            THEN [st |-> [r.st EXCEPT !.cur = "Ollama"], ret |-> Ok("Ollama", None)]
            ELSE select_chain(r.st, 1)
    ELSE select_chain(m, 1)

\* Mutant of get_available_provider: the current provider is reused without
\* consulting the health cache.
get_current_unchecked(m, codev_local) ==
    IF m.cur # None
    THEN [st |-> m, ret |-> Ok(m.cur, None)]
    ELSE auto_select_provider(m, codev_local)

\* LlmManager::get_available_provider
get_available_provider(m, codev_local) ==
    IF m.cur # None
    THEN LET r == is_provider_healthy(m, m.cur)
         IN IF r.ret
            THEN [st |-> r.st, ret |-> Ok(m.cur, None)]
            ELSE auto_select_provider(r.st, codev_local)
    ELSE auto_select_provider(m, codev_local)

\* -------------------------------------------------------------- generation
\* A failed generate is recorded in the health cache as an Unhealthy verdict.
adapter_generate_marks_failure(m, p) ==
    [st |-> [m EXCEPT !.gens = Append(@, [id |-> p, ok |-> svc[p].gen]),
                      !.hs[p] = IF svc[p].gen THEN @
                                ELSE [status |-> "Unhealthy", elapsed |-> 0]],
     ok |-> svc[p].gen]

\* One call of the adapter's generate.
adapter_generate(m, p) ==
    [st |-> [m EXCEPT !.gens = Append(@, [id |-> p, ok |-> svc[p].gen])],
     ok |-> svc[p].gen]

RECURSIVE fallback_without_install(_, _, _, _)
\* Mutant of try_fallback_generation: the alternate that served the request is
\* not installed as the current provider.
fallback_without_install(m, prompt, failed_provider, i) ==
    IF i > Len(fallback_chain)
    THEN [st |-> m, ret |-> Err(FromAiError(NoProviderAvailable))]
    ELSE LET p == fallback_chain[i]
         IN IF p = failed_provider \/ registry_get(p) = None
            THEN fallback_without_install(m, prompt, failed_provider, i + 1)
            ELSE LET r == is_provider_healthy(m, p)
                 IN IF r.ret
                    THEN LET g == adapter_generate(r.st, p)
                         IN IF g.ok
                            THEN [st |-> g.st, ret |-> Ok(p, Text(p, prompt))]
                            ELSE fallback_without_install(g.st, prompt,
                                                          failed_provider, i + 1)
                    ELSE fallback_without_install(r.st, prompt, failed_provider, i + 1)

RECURSIVE try_fallback_generation(_, _, _, _)
\* LlmManager::try_fallback_generation, from chain index i on
try_fallback_generation(m, prompt, failed_provider, i) ==
    IF i > Len(fallback_chain)
    THEN [st |-> m, ret |-> Err(FromAiError(NoProviderAvailable))]
    ELSE LET p == fallback_chain[i]
         IN IF p = failed_provider
            THEN try_fallback_generation(m, prompt, failed_provider, i + 1)
            ELSE IF registry_get(p) # None
                 THEN LET r == is_provider_healthy(m, p)
                      IN IF r.ret
                         THEN LET g == adapter_generate(r.st, p)
                              IN IF g.ok
                                 THEN [st |-> [g.st EXCEPT !.cur = p],
                                       ret |-> Ok(p, Text(p, prompt))]
                                 ELSE try_fallback_generation(g.st, prompt,
                                                              failed_provider, i + 1)
                         ELSE try_fallback_generation(r.st, prompt, failed_provider, i + 1)
                 ELSE try_fallback_generation(m, prompt, failed_provider, i + 1)

\* Mutant of generate: the error of the selected backend is returned to the
\* caller without trying the fallback chain.
generate_without_fallback(m, prompt, codev_local) ==
    LET a == get_available_provider(m, codev_local)
    IN IF ~a.ret.ok
       THEN a
       ELSE LET g == adapter_generate(a.st, a.ret.id)
            IN IF g.ok
               THEN [st |-> g.st, ret |-> Ok(a.ret.id, Text(a.ret.id, prompt))]
               ELSE [st |-> g.st, ret |-> Err(AdapterError(a.ret.id))]

\* LlmManager::generate
generate(m, prompt, codev_local) ==
    LET a == get_available_provider(m, codev_local)
    IN IF ~a.ret.ok
       THEN a
       ELSE LET p == a.ret.id
            IN IF registry_get(p) # None
               THEN LET g == adapter_generate(a.st, p)
                    IN IF g.ok
                       THEN [st |-> g.st, ret |-> Ok(p, Text(p, prompt))]
                       ELSE try_fallback_generation(g.st, prompt, p, 1)
               ELSE [st |-> a.st, ret |-> Err(FromAiError(ProviderNotAvailable(p)))]

\* What the adapter's stream_generate does: it fails when the service takes no
\* generation request; else it returns a sequence, which runs to its end or
\* (breaks) later yields an error.
adapter_stream_generate(p, breaks) ==
    IF ~svc[p].gen THEN "fail" ELSE IF breaks THEN "midErr" ELSE "ok"

\* Mutant of stream_generate: a failed call is retried over the fallback chain,
\* as generate does.
stream_with_fallback(m, prompt, codev_local, breaks) ==
    LET a == get_available_provider(m, codev_local)
    IN IF ~a.ret.ok
       THEN a
       ELSE LET p == a.ret.id
                outcome == adapter_stream_generate(p, breaks)
                st1 == [a.st EXCEPT !.streams = Append(@, [id |-> p, outcome |-> outcome])]
            IN IF outcome = "fail"
               THEN try_fallback_generation(st1, prompt, p, 1)
               ELSE [st |-> st1, ret |-> Ok(p, Text(p, prompt))]

\* LlmManager::stream_generate
stream_generate(m, prompt, codev_local, breaks) ==
    LET a == get_available_provider(m, codev_local)
    IN IF ~a.ret.ok
       THEN a
       ELSE LET p == a.ret.id
            IN IF registry_get(p) # None
               THEN LET outcome == adapter_stream_generate(p, breaks)
                        st1 == [a.st EXCEPT !.streams =
                                    Append(@, [id |-> p, outcome |-> outcome])]
                    IN IF outcome = "fail"
                       THEN [st |-> st1, ret |-> Err(AdapterError(p))]
                       ELSE [st |-> st1, ret |-> Ok(p, Text(p, prompt))]
               ELSE [st |-> a.st, ret |-> Err(FromAiError(ProviderNotAvailable(p)))]

\* Mutant of switch_provider: a Degraded backend is rejected like an Unhealthy
\* one.
switch_healthy_only(m, p) ==
    IF ~registry_is_enabled(p) \/ registry_get(p) = None
    THEN [st |-> m, ret |-> Err(FromAiError(ProviderNotAvailable(p)))]
    ELSE LET outcome == svc[p].probe
             st1 == [m EXCEPT !.probes = Append(@, [id |-> p, outcome |-> outcome])]
         IN IF outcome = "Healthy"
            THEN [st |-> [st1 EXCEPT !.cur = p], ret |-> Ok(p, None)]
            ELSE [st |-> st1, ret |-> Err(FromAiError(ProviderNotAvailable(p)))]

\* LlmManager::switch_provider
switch_provider(m, p) ==
    IF ~registry_is_enabled(p)
    THEN [st |-> m, ret |-> Err(FromAiError(ProviderNotAvailable(p)))]
    ELSE IF registry_get(p) # None
         THEN LET outcome == svc[p].probe
                  st1 == [m EXCEPT !.probes = Append(@, [id |-> p, outcome |-> outcome])]
              IN CASE outcome = "Err" -> [st |-> st1, ret |-> Err(AdapterError(p))]
                   [] outcome = "Healthy" -> [st |-> [st1 EXCEPT !.cur = p], ret |-> Ok(p, None)]
                   [] outcome = "Degraded" -> [st |-> [st1 EXCEPT !.cur = p], ret |-> Ok(p, None)]
                   [] outcome = "Unhealthy" ->
                        [st |-> st1, ret |-> Err(FromAiError(ProviderNotAvailable(p)))]
         ELSE [st |-> m, ret |-> Err(FromAiError(ProviderNotAvailable(p)))]

RECURSIVE sweep(_, _)
\* The loop body of LlmManager::start_health_monitoring over the enabled ids
sweep(m, i) ==
    IF i > Len(enabled_providers)
    THEN m
    ELSE LET p == enabled_providers[i]
         IN IF registry_get(p) # None
            THEN sweep([m EXCEPT !.hs[p] = [status |-> FoldProbe(svc[p].probe), elapsed |-> 0],
                                 !.probes = Append(@, [id |-> p, outcome |-> svc[p].probe])],
                       i + 1)
            ELSE sweep(m, i + 1)

\* ------------------------------------------------------------------ engine
\* Option<T>: <<>> is None, <<v>> is Some(v).
Some(v) == <<v>>

\* f32::to_bits on the temperatures used (IEEE 754 single precision).
to_bits(temp) ==
    CASE temp = "0.1" -> 1036831949
      [] temp = "0.7" -> 1060320051

\* Discriminant of enum Priority.
PriorityDiscriminant(priority) ==
    CASE priority = "Low" -> 0
      [] priority = "Normal" -> 1
      [] priority = "High" -> 2
      [] priority = "Critical" -> 3

\* Mutant of cache_key: the priority is hashed as well.
cache_key_with_priority(request) ==
    <<request.prompt, request.task_type,
      [width |-> 8, bits |-> PriorityDiscriminant(request.priority)]>>
    \o (IF request.temperature # <<>>
        THEN <<[width |-> 32, bits |-> to_bits(request.temperature[1])]>> ELSE <<>>)
    \o (IF request.max_tokens # <<>>
        THEN <<[width |-> 64, bits |-> request.max_tokens[1]]>> ELSE <<>>)

\* cache_key: the words fed to the hasher, in order.  The key is the hash of
\* this stream; two different streams are taken to give two different keys.
cache_key(request) ==
    <<request.prompt, request.task_type>>
    \o (IF request.temperature # <<>>
        THEN <<[width |-> 32, bits |-> to_bits(request.temperature[1])]>> ELSE <<>>)
    \o (IF request.max_tokens # <<>>
        THEN <<[width |-> 64, bits |-> request.max_tokens[1]]>> ELSE <<>>)

\* RequestCache::new
EmptyCache == [k \in {} |-> None]

\* RequestCache::get
RequestCache_get(c, key) == IF key \in DOMAIN c THEN Some(c[key]) ELSE <<>>

\* Mutant of RequestCache::insert: nothing is removed at capacity.
insert_without_eviction(c, key, response, victim) ==
    [k \in DOMAIN c \cup {key} |-> IF k = key THEN response ELSE c[k]]

\* RequestCache::insert; victim: the key that keys().next() yields
RequestCache_insert(c, key, response, victim) ==
    LET kept == IF Cardinality(DOMAIN c) >= max_size /\ victim \in DOMAIN c
                THEN DOMAIN c \ {victim}
                ELSE DOMAIN c
    IN [k \in kept \cup {key} |-> IF k = key THEN response ELSE c[k]]

\* AiEngine::cache_response; h: the origin history
cache_response(c, h, request, response, victim) ==
    [cache |-> RequestCache_insert(c, cache_key(request), response, victim),
     origin |-> RequestCache_insert(h, cache_key(request), request, victim)]

\* AiEngine::process_request after manager.generate has returned g: the error
\* is passed on, or the response is built, cached and returned.
process_generated(c, h, key, request, victim, g) ==
    IF ~g.ret.ok
    THEN [st |-> g.st, cache |-> c, origin |-> h, ret |-> g.ret]
    ELSE [st |-> g.st,
          cache |-> RequestCache_insert(c, key,
                       [content |-> g.ret.text, provider |-> g.st.cur], victim),
          origin |-> RequestCache_insert(h, key, request, victim),
          ret |-> Ok(g.st.cur, g.ret.text)]

\* AiEngine::process_request; c: the request cache, h: the origin history
process_request(m, c, h, request, codev_local, victim) ==
    LET cached == RequestCache_get(c, cache_key(request))
    IN IF cached # <<>>
       THEN [st |-> m, cache |-> c, origin |-> h,
             ret |-> Ok(cached[1].provider, cached[1].content)]
       ELSE process_generated(c, h, cache_key(request), request, victim,
                              generate(m, request.prompt, codev_local))

\* -------------------------------------------------------- streaming stages
\* A String is the sequence of its chars.  "U" stands for a char that takes
\* three bytes in UTF-8 (such as U+20AC); every other char takes one.
len_utf8(ch) == IF ch = "U" THEN 3 ELSE 1

\* String::len: the length in bytes.
RECURSIVE len(_)
len(text) == IF text = <<>> THEN 0 ELSE len_utf8(Head(text)) + len(Tail(text))

\* char::is_whitespace
is_whitespace(ch) == ch = " "

\* str::trim: leading and trailing whitespace removed.
RECURSIVE trim(_)
trim(text) ==
    IF text = <<>> THEN text
    ELSE IF is_whitespace(Head(text)) THEN trim(Tail(text))
    ELSE IF is_whitespace(text[Len(text)]) THEN trim(SubSeq(text, 1, Len(text) - 1))
    ELSE text

\* text.chars().take(n).collect::<String>()
chars_take(text, n) == SubSeq(text, 1, IF n < Len(text) THEN n ELSE Len(text))

\* fn estimate_token_count
estimate_token_count(text) ==
    IF len(text) \div 4 > 1 THEN len(text) \div 4 ELSE 1

\* Items of a StreamingResponse: Ok(text) or Err(e).
OkItem(text) == [ok |-> TRUE, text |-> text]

ErrItem == [ok |-> FALSE, text |-> <<>>]

\* Poll<Option<Item>>
Pending == [ready |-> FALSE, item |-> <<>>, done |-> FALSE]

ReadyNone == [ready |-> TRUE, item |-> <<>>, done |-> TRUE]

ReadySome(item) == [ready |-> TRUE, item |-> <<item>>, done |-> FALSE]

\* poll_next of the upstream: the items not yet delivered are `inner`; the
\* upstream may have its next item (or its end) at hand, or not yet.
inner_poll_next(inner, at_hand) ==
    IF ~at_hand THEN Pending
    ELSE IF inner = <<>> THEN ReadyNone
    ELSE ReadySome(Head(inner))

\* What is left of the upstream after a poll that returned `polled`.
inner_rest(inner, polled) ==
    IF polled.ready /\ ~polled.done THEN Tail(inner) ELSE inner

\* TokenStream::with_buffer_size (TokenStream::new passes 64)
TokenStream_with_buffer_size(stream, buffer_size) ==
    [inner |-> stream, buffer |-> <<>>, buffer_size |-> buffer_size,
     tokens_processed |-> 0, complete |-> FALSE]

\* The end of the upstream is dropped without a flush of the buffer.
TokenStream_poll_without_flush(s, at_hand) ==
    IF s.complete THEN [st |-> s, poll |-> ReadyNone]
    ELSE LET polled == inner_poll_next(s.inner, at_hand)
             rest == inner_rest(s.inner, polled)
         IN IF ~polled.ready THEN [st |-> s, poll |-> Pending]
            ELSE IF polled.done
            THEN [st |-> [s EXCEPT !.complete = TRUE], poll |-> ReadyNone]
            ELSE IF ~polled.item[1].ok
            THEN [st |-> [s EXCEPT !.inner = rest, !.complete = TRUE],
                  poll |-> ReadySome(polled.item[1])]
            ELSE LET buffer == s.buffer \o polled.item[1].text
                     tokens == s.tokens_processed + estimate_token_count(polled.item[1].text)
                 IN IF len(buffer) >= s.buffer_size
                    THEN [st |-> [s EXCEPT !.inner = rest, !.buffer = <<>>,
                                           !.tokens_processed = tokens],
                          poll |-> ReadySome(OkItem(buffer))]
                    ELSE [st |-> [s EXCEPT !.inner = rest, !.buffer = buffer,
                                           !.tokens_processed = tokens],
                          poll |-> Pending]

\* An upstream error makes the stage hand out the buffered text in its place.
TokenStream_poll_flushes_on_error(s, at_hand) ==
    IF s.complete THEN [st |-> s, poll |-> ReadyNone]
    ELSE LET polled == inner_poll_next(s.inner, at_hand)
             rest == inner_rest(s.inner, polled)
         IN IF ~polled.ready THEN [st |-> s, poll |-> Pending]
            ELSE IF polled.done
            THEN IF s.buffer # <<>>
                 THEN [st |-> [s EXCEPT !.complete = TRUE, !.buffer = <<>>],
                       poll |-> ReadySome(OkItem(s.buffer))]
                 ELSE [st |-> [s EXCEPT !.complete = TRUE], poll |-> ReadyNone]
            ELSE IF ~polled.item[1].ok
            THEN [st |-> [s EXCEPT !.inner = rest, !.complete = TRUE, !.buffer = <<>>],
                  poll |-> IF s.buffer # <<>> THEN ReadySome(OkItem(s.buffer))
                           ELSE ReadySome(polled.item[1])]
            ELSE LET buffer == s.buffer \o polled.item[1].text
                     tokens == s.tokens_processed + estimate_token_count(polled.item[1].text)
                 IN IF len(buffer) >= s.buffer_size
                    THEN [st |-> [s EXCEPT !.inner = rest, !.buffer = <<>>,
                                           !.tokens_processed = tokens],
                          poll |-> ReadySome(OkItem(buffer))]
                    ELSE [st |-> [s EXCEPT !.inner = rest, !.buffer = buffer,
                                           !.tokens_processed = tokens],
                          poll |-> Pending]

\* impl Stream for TokenStream: poll_next
TokenStream_poll_next(s, at_hand) ==
    IF s.complete THEN [st |-> s, poll |-> ReadyNone]
    ELSE LET polled == inner_poll_next(s.inner, at_hand)
             rest == inner_rest(s.inner, polled)
         IN IF ~polled.ready THEN [st |-> s, poll |-> Pending]
            ELSE IF polled.done
            THEN IF s.buffer # <<>>
                 THEN [st |-> [s EXCEPT !.complete = TRUE, !.buffer = <<>>],
                       poll |-> ReadySome(OkItem(s.buffer))]
                 ELSE [st |-> [s EXCEPT !.complete = TRUE], poll |-> ReadyNone]
            ELSE IF ~polled.item[1].ok
            THEN [st |-> [s EXCEPT !.inner = rest, !.complete = TRUE],
                  poll |-> ReadySome(polled.item[1])]
            ELSE LET buffer == s.buffer \o polled.item[1].text
                     tokens == s.tokens_processed + estimate_token_count(polled.item[1].text)
                 IN IF len(buffer) >= s.buffer_size
                    THEN [st |-> [s EXCEPT !.inner = rest, !.buffer = <<>>,
                                           !.tokens_processed = tokens],
                          poll |-> ReadySome(OkItem(buffer))]
                    ELSE [st |-> [s EXCEPT !.inner = rest, !.buffer = buffer,
                                           !.tokens_processed = tokens],
                          poll |-> Pending]

\* StreamUtils::take_tokens: stream.scan(0usize, ...) before its first poll.
take_tokens(stream, max_tokens) ==
    [inner |-> stream, tokens_seen |-> 0, max_tokens |-> max_tokens, done |-> FALSE]

\* The closure of take_tokens applied to one upstream item with the scan state
\* tokens_seen: the new state and Some(item) or None.
take_tokens_step(tokens_seen, max_tokens, chunk) ==
    IF ~chunk.ok THEN [tokens_seen |-> tokens_seen, emit |-> <<chunk>>]
    ELSE LET chunk_tokens == estimate_token_count(chunk.text)
             seen == tokens_seen + chunk_tokens
         IN IF seen <= max_tokens
            THEN [tokens_seen |-> seen, emit |-> <<chunk>>]
            ELSE IF seen - chunk_tokens < max_tokens
            THEN LET budget == (max_tokens - (seen - chunk_tokens)) * 4
                     chars_to_take == IF budget < len(chunk.text) THEN budget
                                      ELSE len(chunk.text)
                 IN [tokens_seen |-> seen,
                     emit |-> <<OkItem(chars_take(chunk.text, chars_to_take))>>]
            ELSE [tokens_seen |-> seen, emit |-> <<>>]

\* Scan::poll_next over the closure of take_tokens: every poll of a scan that
\* is not done polls the upstream; the scan is done once the closure has
\* returned None.
take_tokens_poll_next(s, at_hand) ==
    IF s.done THEN [st |-> s, poll |-> ReadyNone]
    ELSE LET polled == inner_poll_next(s.inner, at_hand)
         IN IF ~polled.ready THEN [st |-> s, poll |-> Pending]
            ELSE IF polled.done THEN [st |-> s, poll |-> ReadyNone]
            ELSE LET r == take_tokens_step(s.tokens_seen, s.max_tokens, polled.item[1])
                 IN [st |-> [s EXCEPT !.inner = Tail(s.inner),
                                      !.tokens_seen = r.tokens_seen,
                                      !.done = r.emit = <<>>],
                     poll |-> IF r.emit = <<>> THEN ReadyNone ELSE ReadySome(r.emit[1])]

\* RateLimitedStream::new: delay = Duration::from_millis((1000.0 /
\* tokens_per_second) as u64), the cast truncating to whole milliseconds;
\* last_emit = Instant::now().  The state keeps last_emit.elapsed(), in
\* milliseconds.
RateLimitedStream_new(stream, tokens_per_second) ==
    [stream |-> stream, delay |-> MillisPerSecond \div tokens_per_second, elapsed |-> 0]

\* impl Stream for RateLimitedStream: poll_next
RateLimitedStream_poll_next(s, at_hand) ==
    IF s.elapsed < s.delay THEN [st |-> s, poll |-> Pending]
    ELSE LET polled == inner_poll_next(s.stream, at_hand)
         IN IF polled.ready /\ ~polled.done
            THEN [st |-> [s EXCEPT !.stream = Tail(s.stream), !.elapsed = 0],
                  poll |-> polled]
            ELSE [st |-> s, poll |-> polled]

\* A text is kept whenever it is not empty, whitespace included.
keeps_untrimmed(text) == text # <<>>

\* !text.trim().is_empty()
keeps_text(text) == trim(text) # <<>>

\* Errors are dropped with the empty texts.
filter_empty_drops_errors(chunk) == chunk.ok /\ keeps_text(chunk.text)

\* The predicate of StreamUtils::filter_empty.
filter_empty_keeps(chunk) == IF chunk.ok THEN keeps_text(chunk.text) ELSE TRUE

\* StreamUtils::filter_empty: stream.filter(...) before its first poll.
filter_empty(stream) == [inner |-> stream]

\* Filter::poll_next over the predicate of filter_empty: upstream items are
\* pulled while they are at hand (at_hand of them are, the end of the upstream
\* counting for one) until one is kept.
RECURSIVE filter_empty_poll_next(_, _)
filter_empty_poll_next(s, at_hand) ==
    IF at_hand = 0 THEN [st |-> s, poll |-> Pending]
    ELSE IF s.inner = <<>> THEN [st |-> s, poll |-> ReadyNone]
    ELSE IF filter_empty_keeps(Head(s.inner))
    THEN [st |-> [s EXCEPT !.inner = Tail(s.inner)], poll |-> ReadySome(Head(s.inner))]
    ELSE filter_empty_poll_next([s EXCEPT !.inner = Tail(s.inner)], at_hand - 1)

\* ----------------------------------------------------------- local adapter
\* What the Ollama server answers: GET /api/tags (the service check), GET
\* /api/models at the health check and again before a pull, POST /api/pull.
OllamaServer ==
    [tags : {"success", "failure"},
     models : {"listed", "missing", "error"},
     models_again : {"listed", "missing", "error"},
     pull : {"success", "NetworkTimeout", "ServerError"}]

\* OllamaProvider::is_service_running
is_service_running(server) == server.tags = "success"

\* OllamaProvider::is_model_available over the answer of get_available_models:
\* Ok(true), Ok(false) or Err.
is_model_available(answer) ==
    IF answer = "error" THEN [ok |-> FALSE, val |-> FALSE]
    ELSE [ok |-> TRUE, val |-> answer = "listed"]

\* OllamaProvider::pull_model_if_needed: TRUE for Ok(()), FALSE for Err.
pull_model_if_needed(server) ==
    LET available == is_model_available(server.models_again)
    IN IF ~available.ok THEN FALSE
       ELSE IF available.val THEN TRUE
       ELSE server.pull = "success"

\* impl LlmProvider for OllamaProvider: health_check
OllamaProvider_health_check(server) ==
    IF ~is_service_running(server)
    THEN [ok |-> TRUE, status |-> "Unhealthy", text |-> "service not accessible"]
    ELSE LET available == is_model_available(server.models)
         IN IF available.ok /\ available.val
            THEN [ok |-> TRUE, status |-> "Healthy", text |-> ""]
            ELSE IF available.ok
            THEN IF pull_model_if_needed(server)
                 THEN [ok |-> TRUE, status |-> "Healthy", text |-> ""]
                 ELSE [ok |-> TRUE, status |-> "Degraded",
                       text |-> "model not available and pull failed"]
            ELSE [ok |-> TRUE, status |-> "Degraded",
                  text |-> "failed to check model availability"]

\* The wait is one second after every failed attempt.
retry_delay_constant(attempt) == 1000

\* Duration::from_millis(1000 * attempt as u64), in milliseconds
retry_delay(attempt) == 1000 * attempt

\* What operation().await returns at one attempt.
AttemptOutcome == {"Ok", "NetworkTimeout", "ServerError"}

\* request_with_retries at its entry: the loop variable, last_error (<<>> is
\* None), and what the call has done so far: the outcomes of its attempts and
\* the waits it made.
request_with_retries(max_retries) ==
    [max_retries |-> max_retries, pc |-> "call", attempt |-> 1, last_error |-> <<>>,
     attempts |-> <<>>, sleeps |-> <<>>, delay |-> 0, ret |-> <<>>]

\* The head of `for attempt in 1..=self.max_retries`, and after the loop
\* Err(last_error.unwrap()): unwrap of None panics.
retry_loop(c) ==
    IF c.attempt <= c.max_retries THEN [c EXCEPT !.pc = "attempt"]
    ELSE IF c.last_error = <<>> THEN [c EXCEPT !.pc = "panicked"]
    ELSE [c EXCEPT !.pc = "returned", !.ret = <<c.last_error[1]>>]

\* The loop body up to its await on sleep: operation().await returned outcome.
retry_attempt(c, outcome) ==
    LET logged == [c EXCEPT !.attempts = Append(@, outcome)]
    IN IF outcome = "Ok" THEN [logged EXCEPT !.pc = "returned", !.ret = <<"Ok">>]
       ELSE IF c.attempt < c.max_retries
       THEN [logged EXCEPT !.last_error = <<outcome>>, !.pc = "sleep",
                           !.delay = retry_delay(c.attempt)]
       ELSE retry_loop([logged EXCEPT !.last_error = <<outcome>>, !.attempt = @ + 1])

\* tokio::time::sleep(delay).await returned; the next iteration starts.
retry_slept(c) ==
    retry_loop([c EXCEPT !.sleeps = Append(@, c.delay), !.attempt = @ + 1])

\* The lines of a network chunk of the streamed /api/generate answer, as
\* text.lines() yields them: a blank line, a line that is no JSON object, or an
\* OllamaResponse with its `response` text.
BlankLine == [json |-> FALSE, blank |-> TRUE, response |-> <<>>]

MalformedLine == [json |-> FALSE, blank |-> FALSE, response |-> <<>>]

JsonLine(response) == [json |-> TRUE, blank |-> FALSE, response |-> response]

\* The closure given to bytes_stream().map over the lines of one chunk: the
\* `response` of the first line that parses and has a non-empty one is
\* returned; String::new() if there is none.
RECURSIVE first_response(_)
first_response(lines) ==
    IF lines = <<>> THEN <<>>
    ELSE IF Head(lines).blank THEN first_response(Tail(lines))
    ELSE IF Head(lines).json /\ Head(lines).response # <<>> THEN Head(lines).response
    ELSE first_response(Tail(lines))

\* The item the map closure makes of one item of bytes_stream().
ollama_stream_map(chunk) ==
    IF chunk.ok THEN OkItem(first_response(chunk.lines)) ELSE ErrItem

\* The stream OllamaProvider::stream_generate returns: bytes_stream().map(..)
\* .filter(..) before its first poll.
ollama_stream(bytes_stream) == [inner |-> bytes_stream]

\* poll_next of that stream: chunks are pulled while they are at hand (at_hand
\* of them are, the end of the answer counting for one) until the item made
\* of one is an error or a non-empty text.
RECURSIVE ollama_stream_poll_next(_, _)
ollama_stream_poll_next(s, at_hand) ==
    IF at_hand = 0 THEN [st |-> s, poll |-> Pending]
    ELSE IF s.inner = <<>> THEN [st |-> s, poll |-> ReadyNone]
    ELSE IF ~ollama_stream_map(Head(s.inner)).ok
            \/ ollama_stream_map(Head(s.inner)).text # <<>>
    THEN [st |-> [s EXCEPT !.inner = Tail(s.inner)],
          poll |-> ReadySome(ollama_stream_map(Head(s.inner)))]
    ELSE ollama_stream_poll_next([s EXCEPT !.inner = Tail(s.inner)], at_hand - 1)

\* BufferedStream::new: the channel is empty, the spawned task owns the
\* upstream and is about to await stream.next(); the consumer holds the
\* receiver.
BufferedStream_new(stream) ==
    [inner |-> stream, channel |-> <<>>, task |-> "next", chunk |-> <<>>,
     receiver_dropped |-> FALSE, pulled_at_drop |-> 0,
     accumulated |-> <<>>, tokens_count |-> 0]

\* The spawned task: stream.next().await returns; at the end of the upstream
\* the loop ends and the task drops the upstream and the sender.
BufferedStream_task_next(s) ==
    IF s.inner = <<>> THEN [s EXCEPT !.task = "exited"]
    ELSE [s EXCEPT !.task = "send", !.chunk = <<Head(s.inner)>>, !.inner = Tail(s.inner)]

\* The spawned task: sender.send(chunk); the loop breaks when the receiver is
\* gone.
BufferedStream_task_send(s) ==
    IF s.receiver_dropped THEN [s EXCEPT !.task = "exited", !.chunk = <<>>]
    ELSE [s EXCEPT !.task = "next", !.chunk = <<>>, !.channel = Append(@, s.chunk[1])]

\* BufferedStream::next_chunk when receiver.recv() has a chunk to return.
BufferedStream_next_chunk(s) ==
    LET chunk == Head(s.channel)
    IN IF chunk.ok
       THEN [s EXCEPT !.channel = Tail(@), !.accumulated = @ \o chunk.text,
                      !.tokens_count = @ + estimate_token_count(chunk.text)]
       ELSE [s EXCEPT !.channel = Tail(@)]

\* ------------------------------------------------------------- the system
\* What the service behind an adapter would answer right now: the outcome of
\* a health check, and whether it takes a generation request (one-shot or
\* streamed).  A service whose probe fails takes none.
SvcState ==
    {s \in [probe : ProbeOutcome, gen : BOOLEAN] :
        s.probe \in {"Unhealthy", "Err"} => ~s.gen}

\* No adapter exists for an id that is not registered.
NoSvc == [probe |-> "Unhealthy", gen |-> FALSE]

Prompts == {"hi"}

Idle == [op |-> "none", arg |-> None, ret |-> Ok(None, None),
         hq |-> <<>>, probes |-> <<>>, gens |-> <<>>, streams |-> <<>>]

\* The callers that may have a process_request in flight at the same time.
Clients == {"c1", "c2"}

\* No call of the client is in flight.
IdleClient == [pc |-> "idle", request |-> <<>>, text |-> None]

\* The monitoring task waits in ticker.tick().await.
AtTick == [pc |-> "tick", todo |-> <<>>]

\* The tasks that take the locks: the callers and the monitoring task.
Tasks == Clients \cup {"monitor"}

\* The tokio::sync::RwLock cells: AiEngine.llm_manager, LlmManager.registry,
\* LlmManager.current_provider, LlmManager.health_status.
LockNames == {"llm_manager", "registry", "current_provider", "health_status"}

\* RwLock::new: no guard is out, nobody waits.
\*   readers  task -> number of read guards it holds
\*   writer   <<t>> if t holds the write guard, else <<>>
\*   queue    the waiters in arrival order: [task, write]
FreeLocks ==
    [l \in LockNames |-> [readers |-> [t \in Tasks |-> 0], writer |-> <<>>, queue |-> <<>>]]

\* The record of a call that returned r.
Call(op, arg, r) ==
    [op |-> op, arg |-> arg, ret |-> r.ret,
     hq |-> r.st.hq, probes |-> r.st.probes, gens |-> r.st.gens, streams |-> r.st.streams]

\* The manager state of a freshly built LlmManager (LlmManager::new, before
\* the initial selection).
MgrNew == [cur |-> None, hs |-> [p \in ProviderId |-> NoEntry],
           hq |-> <<>>, probes |-> <<>>, gens |-> <<>>, streams |-> <<>>]

\* ProviderFactory::create_all_providers: only enabled configurations whose
\* adapter can be built (the local one, or one with an API key) are registered.
create_all_providers(enabled_cfg, api_keys) ==
    {p \in enabled_cfg : p = "Ollama" \/ p \in api_keys}

\* AiConfig::default().fallback_chain, restricted to the ids that take part.
DefaultChain == <<"Ollama", "Claude", "OpenAI">>

\* The configurations explored: every registry of one or two adapters with
\* every chain up to MaxChainLen, every registration order and every map
\* order, and the complete registry under the default chain.
ConfigOk(reg, chain, order, registered_in) ==
    IF reg = ProviderId
    THEN /\ chain = DefaultChain
         /\ order = <<"Ollama", "OpenAI", "Claude">>
         /\ registered_in = <<"Ollama", "OpenAI", "Claude">>
    ELSE reg # {} /\ chain \in Chains(ProviderId, MaxChainLen)

\* LlmManager::new: build the registry, run the initial selection; the manager
\* exists only if that selection succeeds.
InitManager ==
    \E enabled_cfg \in SUBSET ProviderId, api_keys \in SUBSET (ProviderId \ {"Ollama"}) :
      /\ api_keys \subseteq enabled_cfg
      /\ providers = create_all_providers(enabled_cfg, api_keys)
      /\ configs = [p \in providers |-> TRUE]
      /\ iter_order \in Perms(providers)
      /\ reg_order \in Perms(providers)
      /\ fallback_chain \in Chains(ProviderId, MaxChainLen) \cup {DefaultChain}
      /\ ConfigOk(providers, fallback_chain, iter_order, reg_order)
      /\ environment = "Development"
      /\ svc \in [ProviderId -> SvcState \cup {NoSvc}]
      /\ \A p \in ProviderId \ providers : svc[p] = NoSvc
      /\ \E r \in {auto_select_provider(MgrNew, FALSE)} :
            /\ r.ret.ok
            /\ current_provider = r.st.cur
            /\ health_status = r.st.hs
            /\ last = Call("new", None, r)
      /\ cache = EmptyCache
      /\ origin = EmptyCache
      /\ clients = [c \in Clients |-> IdleClient]
      /\ monitor = AtTick
      /\ locks = FreeLocks

\* No streaming stage is under poll while the manager is exercised.
NoPipe == [stage |-> "none"]

\* The local adapter is not probed on its own while the manager is exercised:
\* there its health_check is one of the adapters' (svc).
NoOllama == [server |-> <<>>, checked |-> <<>>]

Init == InitManager /\ pipe = NoPipe /\ ollama = NoOllama

\* The registry and the fields of the manager fixed at construction.
Settings == <<providers, configs, iter_order, reg_order, fallback_chain, environment>>

\* What a handler that runs to its return leaves as it found it: the
\* configuration, the position of the monitoring task, and the locks, every
\* guard it took being dropped when it returns.
Config == <<Settings, monitor, locks>>

Engine == <<cache, origin, clients>>

\* pub async fn auto_select_provider
Select ==
    \E codev_local \in BOOLEAN :
      \E r \in {auto_select_provider(MgrStart, codev_local)} :
         /\ current_provider' = r.st.cur
         /\ health_status' = r.st.hs
         /\ last' = Call("select", None, r)
         /\ UNCHANGED <<Config, pipe, ollama, Engine, svc>>

\* pub async fn generate
Generate ==
    \E prompt \in Prompts, codev_local \in BOOLEAN :
      \E r \in {generate(MgrStart, prompt, codev_local)} :
         /\ current_provider' = r.st.cur
         /\ health_status' = r.st.hs
         /\ last' = Call("generate", prompt, r)
         /\ UNCHANGED <<Config, pipe, ollama, Engine, svc>>

\* pub async fn stream_generate
StreamGenerate ==
    \E prompt \in Prompts, codev_local \in BOOLEAN, breaks \in BOOLEAN :
      \E r \in {stream_generate(MgrStart, prompt, codev_local, breaks)} :
         /\ current_provider' = r.st.cur
         /\ health_status' = r.st.hs
         /\ last' = Call("stream_generate", prompt, r)
         /\ UNCHANGED <<Config, pipe, ollama, Engine, svc>>

\* The caller pulls the returned sequence to its end: it ends normally or
\* yields an error fragment; the manager takes no part in it.
StreamPoll ==
    /\ last.op = "stream_generate"
    /\ last.ret.ok
    /\ last' = [last EXCEPT !.op = "stream_end",
                            !.ret = IF last.streams[Len(last.streams)].outcome = "midErr"
                                    THEN Err(AdapterError(last.ret.id))
                                    ELSE last.ret]
    /\ UNCHANGED <<Config, pipe, ollama, Engine, svc, current_provider, health_status>>

\* pub async fn switch_provider
SwitchProvider ==
    \E p \in ProviderId :
      \E r \in {switch_provider(MgrStart, p)} :
         /\ current_provider' = r.st.cur
         /\ health_status' = r.st.hs
         /\ last' = Call("switch_provider", p, r)
         /\ UNCHANGED <<Config, pipe, ollama, Engine, svc>>

\* struct AiRequest, with the fields of GenerationOptions that vary here:
\* requests that set a temperature or a maximal length.
AiRequest ==
    {r \in [prompt : Prompts, task_type : {"Chat"},
             temperature : {<<>>, Some("0.7")}, max_tokens : {<<>>, Some(1024)},
             priority : {"Low", "Critical"}] :
        (r.temperature = <<>>) # (r.max_tokens = <<>>)}

\* async fn process_request (behind chat, generate_code, analyze_code, ...)
ProcessRequest ==
    \E request \in AiRequest, codev_local \in BOOLEAN,
       victim \in (IF cache = EmptyCache THEN {None} ELSE DOMAIN cache) :
      \E r \in {process_request(MgrStart, cache, origin, request, codev_local, victim)} :
         /\ current_provider' = r.st.cur
         /\ health_status' = r.st.hs
         /\ cache' = r.cache
         /\ origin' = r.origin
         /\ last' = Call("process_request", request, r)
         /\ UNCHANGED <<Config, pipe, ollama, svc, clients>>

\* The requests submitted by the clients whose calls overlap: they ask the
\* same thing.
OverlappingRequests == {r \in AiRequest : r.priority = "Low" /\ r.max_tokens = <<>>}

\* process_request of client c up to its first await on the manager: the cache
\* is checked; a hit returns the cached response.
CheckCache(c) ==
    /\ clients[c].pc = "idle"
    /\ \E request \in OverlappingRequests :
         \E cached \in {RequestCache_get(cache, cache_key(request))} :
            IF cached # <<>>
            THEN /\ last' = [Idle EXCEPT !.op = "cache_hit", !.arg = request,
                                         !.ret = Ok(cached[1].provider, cached[1].content)]
                 /\ UNCHANGED clients
            ELSE /\ clients' = [clients EXCEPT ![c] =
                                   [pc |-> "generate", request |-> Some(request),
                                    text |-> None]]
                 /\ last' = Idle
    /\ UNCHANGED <<Config, pipe, ollama, svc, current_provider, health_status, cache, origin>>

\* process_request of client c: manager.generate(...).await? runs and returns.
ManagerGenerate(c) ==
    /\ clients[c].pc = "generate"
    /\ \E codev_local \in BOOLEAN :
         \E r \in {generate(MgrStart, clients[c].request[1].prompt, codev_local)} :
            /\ current_provider' = r.st.cur
            /\ health_status' = r.st.hs
            /\ clients' = [clients EXCEPT ![c] =
                              IF r.ret.ok
                              THEN [@ EXCEPT !.pc = "record", !.text = r.ret.text]
                              ELSE IdleClient]
            /\ last' = IF r.ret.ok THEN Idle
                       ELSE [Idle EXCEPT !.op = "request_failed",
                                         !.arg = clients[c].request[1], !.ret = r.ret]
    /\ UNCHANGED <<Config, pipe, ollama, svc, cache, origin>>

\* process_request of client c after generate has returned: the current
\* provider is read, the response is built, cached and returned.
RecordResponse(c) ==
    /\ clients[c].pc = "record"
    /\ \E victim \in (IF cache = EmptyCache THEN {None} ELSE DOMAIN cache) :
         \E response \in {[content |-> clients[c].text, provider |-> current_provider]} :
            \E r \in {cache_response(cache, origin, clients[c].request[1], response, victim)} :
               /\ cache' = r.cache
               /\ origin' = r.origin
               /\ last' = [Idle EXCEPT !.op = "response", !.arg = clients[c].request[1],
                                       !.ret = Ok(response.provider, response.content)]
    /\ clients' = [clients EXCEPT ![c] = IdleClient]
    /\ UNCHANGED <<Config, pipe, ollama, svc, current_provider, health_status>>

\* struct AiResponse: the text and the backend recorded with it.
AiResponse == {[content |-> Text(p, prompt), provider |-> p] :
                  p \in ProviderId, prompt \in Prompts}

\* async fn cache_response, called with any request and response; the call
\* record keeps the key that the insert removed (<<>> if none).
CacheResponse ==
    \E request \in AiRequest, response \in AiResponse,
       victim \in (IF cache = EmptyCache THEN {None} ELSE DOMAIN cache) :
      \E r \in {cache_response(cache, origin, request, response, victim)} :
         /\ cache' = r.cache
         /\ origin' = r.origin
         /\ last' = [Idle EXCEPT !.op = "cache_response", !.arg = request,
                                 !.ret = Ok(SetToSeq(DOMAIN cache \ DOMAIN r.cache), None)]
         /\ UNCHANGED <<Config, pipe, ollama, svc, current_provider, health_status, clients>>

\* One round of the background task of start_health_monitoring.
HealthSweep ==
    LET m == sweep(MgrStart, 1)
    IN /\ health_status' = m.hs
       /\ last' = Idle
       /\ UNCHANGED <<Config, pipe, ollama, Engine, svc, current_provider>>

\* Time passes: every cached entry gets older (Instant::elapsed grows).
Tick ==
    /\ \E p \in ProviderId : CacheFresh(health_status, p)
    /\ health_status' = [p \in ProviderId |->
          IF health_status[p] = NoEntry THEN NoEntry
          ELSE [health_status[p] EXCEPT !.elapsed =
                   IF @ + TickStep > HealthCheckInterval THEN HealthCheckInterval
                   ELSE @ + TickStep]]
    /\ last' = Idle
    /\ UNCHANGED <<Config, pipe, ollama, Engine, svc, current_provider>>

\* The service behind one registered adapter changes its behaviour.
EnvChange ==
    \E p \in providers, s \in SvcState :
      /\ s # svc[p]
      /\ svc' = [svc EXCEPT ![p] = s]
      /\ last' = Idle
      /\ UNCHANGED <<Config, pipe, ollama, Engine, current_provider, health_status>>

\* The world around the calls: background sweep, time, the services.
Background == HealthSweep \/ Tick \/ EnvChange

NextSelect == Select \/ HealthSweep \/ Tick \/ EnvChange

NextGen == Generate \/ HealthSweep \/ Tick \/ EnvChange

NextStream == StreamGenerate \/ StreamPoll \/ HealthSweep \/ Tick \/ EnvChange

NextSwitch == SwitchProvider \/ HealthSweep \/ Tick \/ EnvChange

SpecSelect == Init /\ [][NextSelect]_vars

SpecGen == Init /\ [][NextGen]_vars

SpecStream == Init /\ [][NextStream]_vars

SpecSwitch == Init /\ [][NextSwitch]_vars

\* AiEngine::new over one configuration: the local adapter and one hosted
\* adapter, which is the fallback of the local one.
InitEngine ==
    /\ providers = {"Ollama", "OpenAI"}
    /\ fallback_chain = <<"Ollama", "OpenAI">>
    /\ Init
    /\ iter_order = reg_order

NextEngine == ProcessRequest \/ HealthSweep \/ Tick \/ EnvChange

SpecEngine == InitEngine /\ [][NextEngine]_vars

\* The three places where the manager calls health_check, over that
\* configuration: the selection's refresh of an old cache entry, the manual
\* switch and the background sweep.
NextHealth == Select \/ SwitchProvider \/ HealthSweep \/ Tick \/ EnvChange

SpecHealth == InitEngine /\ [][NextHealth]_vars

\* Manual switches between the requests of one caller, over that
\* configuration.
NextSwitchGen ==
    SwitchProvider \/ Generate \/ StreamGenerate \/ HealthSweep \/ Tick \/ EnvChange

SpecSwitchGen == InitEngine /\ [][NextSwitchGen]_vars

\* Calls of process_request that overlap: each is cut at its awaits on the
\* manager, and the steps of the clients interleave with each other and with
\* the world.
NextConcurrent ==
    \/ \E c \in Clients : CheckCache(c) \/ ManagerGenerate(c) \/ RecordResponse(c)
    \/ HealthSweep \/ Tick \/ EnvChange

SpecConcurrent == InitEngine /\ [][NextConcurrent]_vars

\* ------------------------------------------------- overlapping generate calls
\* LlmManager::generate cut at its awaits.  Each client is in one call at a
\* time; its record keeps where the call stands:
\*   pc        "select"   get_available_provider found the current backend
\*                        unusable and goes on to auto_select_provider
\*             "write"    auto_select_provider has its candidate and awaits
\*                        current_provider.write()
\*             "dispatch" the backend is chosen, provider.generate is next
\*             "fallback" the backend failed, try_fallback_generation is next
\*   seen      what the call read in current_provider
\*   provider  the backend the call selected
\*   overtaken another call has written current_provider since `seen` was read
InCall(pc, seen, provider, overtaken) ==
    [pc |-> pc, seen |-> seen, provider |-> provider, overtaken |-> overtaken]

\* Client c has written current_provider: every other call that stands
\* between its read and its own write has been overtaken.
Overtake(c) ==
    [d \in Clients |->
        IF d # c /\ clients[d].pc \in {"select", "write"}
        THEN [clients[d] EXCEPT !.overtaken = TRUE]
        ELSE clients[d]]

\* get_available_provider, lines 240-244: the read guard on current_provider
\* taken in the `if let` is held until the health check of that backend has
\* answered, so no write of current_provider falls between the read and the
\* check; the guard is released before auto_select_provider is called.
GetAvailableCheck(c) ==
    /\ clients[c].pc = "idle"
    /\ \E r \in {IF current_provider # None
                 THEN is_provider_healthy(MgrStart, current_provider)
                 ELSE [st |-> MgrStart, ret |-> FALSE]} :
         /\ health_status' = r.st.hs
         /\ clients' = [clients EXCEPT ![c] =
                           IF r.ret
                           THEN InCall("dispatch", current_provider, current_provider, FALSE)
                           ELSE InCall("select", current_provider, None, FALSE)]
    /\ last' = Idle
    /\ UNCHANGED <<Config, pipe, ollama, svc, current_provider, cache, origin>>

\* auto_select_provider up to its `*self.current_provider.write().await`:
\* the candidates are asked in order and the first available one is kept.
AutoSelectCandidate(c) ==
    /\ clients[c].pc = "select"
    /\ \E codev_local \in BOOLEAN :
         \E r \in {auto_select_provider(MgrStart, codev_local)} :
            /\ health_status' = r.st.hs
            /\ clients' = [clients EXCEPT ![c] =
                              IF r.ret.ok
                              THEN [@ EXCEPT !.pc = "write", !.provider = r.ret.id]
                              ELSE IdleClient]
    /\ last' = Idle
    /\ UNCHANGED <<Config, pipe, ollama, svc, current_provider, cache, origin>>

\* auto_select_provider: the write lock is granted and the candidate is
\* installed.
AutoSelectWrite(c) ==
    /\ clients[c].pc = "write"
    /\ current_provider' = clients[c].provider
    /\ clients' = [Overtake(c) EXCEPT ![c].pc = "dispatch"]
    /\ last' = Idle
    /\ UNCHANGED <<Config, pipe, ollama, svc, health_status, cache, origin>>

\* generate, lines 183-194: provider.generate(...).await on the chosen backend
DispatchGenerate(c) ==
    /\ clients[c].pc = "dispatch"
    /\ clients' = [clients EXCEPT ![c] =
                      IF registry_get(clients[c].provider) # None
                         /\ ~adapter_generate(MgrStart, clients[c].provider).ok
                      THEN [@ EXCEPT !.pc = "fallback"]
                      ELSE IdleClient]
    /\ last' = Idle
    /\ UNCHANGED <<Config, pipe, ollama, svc, current_provider, health_status, cache, origin>>

\* try_fallback_generation: the chain is walked; the alternate that answers is
\* installed as the current backend.
FallbackGenerate(c) ==
    /\ clients[c].pc = "fallback"
    /\ \E prompt \in Prompts :
         \E r \in {try_fallback_generation(MgrStart, prompt, clients[c].provider, 1)} :
            /\ health_status' = r.st.hs
            /\ current_provider' = r.st.cur
            /\ clients' = [(IF r.ret.ok THEN Overtake(c) ELSE clients) EXCEPT ![c] = IdleClient]
    /\ last' = Idle
    /\ UNCHANGED <<Config, pipe, ollama, svc, cache, origin>>

NextInterleaved ==
    \/ \E c \in Clients : \/ GetAvailableCheck(c)
                          \/ AutoSelectCandidate(c)
                          \/ AutoSelectWrite(c)
                          \/ DispatchGenerate(c)
                          \/ FallbackGenerate(c)
    \/ HealthSweep \/ Tick \/ EnvChange

SpecInterleaved == InitEngine /\ [][NextInterleaved]_vars

\* ------------------------------------------------ overlapping health probes
\* perform_health_check and the loop body of the monitoring task, cut between
\* `provider.health_check().await` and `health_status.write().await`.  A task
\* that holds a verdict it has not yet stored keeps, besides the verdict:
\*   newer       the tasks that probed the same backend after it and have not
\*               stored their verdict yet
\*   superseded  the verdict of a probe made after its own has been stored
Probing(p, status) ==
    [pc |-> "insert", id |-> p, status |-> status, newer |-> {}, superseded |-> FALSE]

\* Task y has probed p: its probe is newer than every verdict of p still held.
HeldAfterProbe(held, y, p) ==
    IF held.pc = "insert" /\ held.id = p THEN [held EXCEPT !.newer = @ \cup {y}] ELSE held

\* Task y has stored its verdict of p: the verdicts of p obtained before its
\* probe and still held are superseded.
HeldAfterInsert(held, y, p) ==
    IF held.pc = "insert" /\ held.id = p /\ y \in held.newer
    THEN [held EXCEPT !.newer = @ \ {y}, !.superseded = TRUE]
    ELSE held

\* is_provider_healthy finds no recent entry for p and perform_health_check
\* runs up to the answer of provider.health_check().
RefreshProbe(c) ==
    /\ clients[c].pc = "idle"
    /\ Cardinality({d \in Clients : clients[d].pc = "insert"}) < MaxRefreshes
    /\ \E p \in ProviderId :
         /\ ~CacheFresh(health_status, p)
         /\ registry_get(p) # None
         /\ clients' = [d \in Clients |->
                           IF d = c THEN Probing(p, FoldProbe(svc[p].probe))
                           ELSE HeldAfterProbe(clients[d], c, p)]
         /\ monitor' = HeldAfterProbe(monitor, c, p)
    /\ last' = Idle
    /\ UNCHANGED <<Settings, locks, pipe, ollama, svc, current_provider, health_status, cache, origin>>

\* perform_health_check: the write lock is granted and the verdict is stored
\* with Instant::now().
RefreshInsert(c) ==
    /\ clients[c].pc = "insert"
    /\ health_status' = [health_status EXCEPT ![clients[c].id] =
                            [status |-> clients[c].status, elapsed |-> 0]]
    /\ clients' = [d \in Clients |->
                      IF d = c THEN IdleClient
                      ELSE HeldAfterInsert(clients[d], c, clients[c].id)]
    /\ monitor' = HeldAfterInsert(monitor, c, clients[c].id)
    /\ last' = Idle
    /\ UNCHANGED <<Settings, locks, pipe, ollama, svc, current_provider, cache, origin>>

\* The monitoring task goes on after a backend is done: to the next id, or
\* back to ticker.tick().
MonitorRest(todo) == IF todo = <<>> THEN AtTick ELSE [pc |-> "probe", todo |-> todo]

\* start_health_monitoring: the ticker fires and the enabled ids are collected.
MonitorTick ==
    /\ monitor.pc = "tick"
    /\ monitor' = MonitorRest(enabled_providers)
    /\ last' = Idle
    /\ UNCHANGED <<Settings, locks, pipe, ollama, Engine, svc, current_provider, health_status>>

\* start_health_monitoring: provider.health_check().await for the next id
MonitorProbe ==
    /\ monitor.pc = "probe"
    /\ \E p \in {Head(monitor.todo)} :
         IF registry_get(p) # None
         THEN /\ monitor' = Probing(p, FoldProbe(svc[p].probe)) @@ [todo |-> monitor.todo]
              /\ clients' = [d \in Clients |-> HeldAfterProbe(clients[d], "monitor", p)]
         ELSE /\ monitor' = MonitorRest(Tail(monitor.todo))
              /\ UNCHANGED clients
    /\ last' = Idle
    /\ UNCHANGED <<Settings, locks, pipe, ollama, svc, current_provider, health_status, cache, origin>>

\* start_health_monitoring: the write lock is granted and the verdict is
\* stored with Instant::now().
MonitorInsert ==
    /\ monitor.pc = "insert"
    /\ health_status' = [health_status EXCEPT ![monitor.id] =
                            [status |-> monitor.status, elapsed |-> 0]]
    /\ clients' = [d \in Clients |-> HeldAfterInsert(clients[d], "monitor", monitor.id)]
    /\ monitor' = MonitorRest(Tail(monitor.todo))
    /\ last' = Idle
    /\ UNCHANGED <<Settings, locks, pipe, ollama, svc, current_provider, cache, origin>>

NextRefresh ==
    \/ \E c \in Clients : RefreshProbe(c) \/ RefreshInsert(c)
    \/ MonitorTick \/ MonitorProbe \/ MonitorInsert
    \/ Tick \/ EnvChange

SpecRefresh == InitEngine /\ [][NextRefresh]_vars

\* ----------------------------------------------------------------- locking
\* The calls of the engine and the monitoring task, cut at every await on a
\* lock or on an adapter.  The answers of the adapters and the contents of the
\* cells only decide which branch a call takes; here every branch is open at
\* every step, so the cells themselves are left alone.
\*
\* tokio::sync::RwLock is fair: read() and write() join one queue and are
\* served in arrival order; a reader that arrives behind a waiting writer
\* waits for it.

\* Mutant of CanGrant: a waiter is served as soon as the guards that are out
\* allow it, whoever waits in front of it.
CanGrantUnfair(L, l, t) ==
    \E i \in 1..Len(L[l].queue) :
       /\ L[l].queue[i].task = t
       /\ L[l].writer = <<>>
       /\ L[l].queue[i].write => \A u \in Tasks : L[l].readers[u] = 0

\* The waiter t of lock l can be given its guard: it is first in the queue and
\* the guards that are out allow it.
CanGrant(L, l, t) ==
    /\ L[l].queue # <<>>
    /\ Head(L[l].queue).task = t
    /\ L[l].writer = <<>>
    /\ Head(L[l].queue).write => \A u \in Tasks : L[l].readers[u] = 0

\* read().await / write().await is reached: t joins the queue of l.
Enqueue(L, l, t, write) ==
    [L EXCEPT ![l].queue = Append(@, [task |-> t, write |-> write])]

\* t leaves the queue of l with its guard.
Grant(L, l, t) ==
    LET i == CHOOSE i \in 1..Len(L[l].queue) : L[l].queue[i].task = t
    IN [L EXCEPT ![l].queue = SubSeq(@, 1, i - 1) \o SubSeq(@, i + 1, Len(@)),
                 ![l].writer = IF L[l].queue[i].write THEN <<t>> ELSE @,
                 ![l].readers[t] = IF L[l].queue[i].write THEN @ ELSE @ + 1]

RECURSIVE Release(_, _, _)
\* The guards of t on the locks named in rel are dropped, one per entry.
Release(L, rel, t) ==
    IF rel = <<>> THEN L
    ELSE Release(IF L[Head(rel)].writer = <<t>>
                 THEN [L EXCEPT ![Head(rel)].writer = <<>>]
                 ELSE [L EXCEPT ![Head(rel)].readers[t] = @ - 1],
                 Tail(rel), t)

\* The lock a task waits for at pc: <<>> if it waits for none.
Wants(pc) ==
    CASE pc = "manager_read" -> <<[lock |-> "llm_manager", write |-> FALSE]>>
      [] pc = "manager_write" -> <<[lock |-> "llm_manager", write |-> TRUE]>>
      [] pc \in {"gap_current_read", "engine_current_read"} ->
            <<[lock |-> "current_provider", write |-> FALSE]>>
      [] pc \in {"as_current_write", "fb_current_write", "sw_current_write"} ->
            <<[lock |-> "current_provider", write |-> TRUE]>>
      [] pc = "iph_health_read" -> <<[lock |-> "health_status", write |-> FALSE]>>
      [] pc \in {"phc_health_write", "mon_health_write"} ->
            <<[lock |-> "health_status", write |-> TRUE]>>
      [] pc \in {"phc_registry_read", "as_registry_read", "gen_registry_read",
                 "fb_registry_read", "sw_registry_read", "mon_collect",
                 "mon_registry_read"} ->
            <<[lock |-> "registry", write |-> FALSE]>>
      [] OTHER -> <<>>

\* The calls of the engine: chat and its like (process_request), stream_chat,
\* switch_provider.
Ops == {"generate", "stream_generate", "switch_to"}

\* A call in flight:
\*   op      the call
\*   pc      the await it stands at
\*   ret     the caller of is_provider_healthy to return to
\*   left    candidates left in the loop of auto_select_provider or
\*           try_fallback_generation, the one under test included
Calling(op, pc) == [op |-> op, pc |-> pc, ret |-> None, left |-> 0]

\* One step of a task: the guards dropped on the way and where it stands next.
St(rel, to) == [rel |-> rel, to |-> to]

\* The candidates auto_select_provider may ask: the local backend, the
\* fallback chain, the enabled backends.
ASCandidates == 1 + Len(fallback_chain) + Len(enabled_providers)

\* try_fallback_generation: the next chain entry, or NoProviderAvailable with
\* the registry guards of try_fallback_generation and generate and the
\* manager guard of the engine dropped.
fallback_next(t) ==
    IF t.left > 1
    THEN St(<<>>, [t EXCEPT !.pc = "iph_health_read", !.left = @ - 1])
    ELSE St(<<"registry", "registry", "llm_manager">>, IdleClient)

\* is_provider_healthy returns ans to its caller.
healthy_answer(t, ans) ==
    CASE t.ret = "gap" ->
           \* get_available_provider: the read guard of the `if let` is dropped
           IF ans THEN St(<<"current_provider">>, [t EXCEPT !.pc = "gen_registry_read"])
           ELSE St(<<"current_provider">>, [t EXCEPT !.pc = "as_registry_read"])
      [] t.ret = "as" ->
           IF ans THEN St(<<>>, [t EXCEPT !.pc = "as_current_write"])
           ELSE IF t.left > 1
                THEN St(<<>>, [t EXCEPT !.pc = "iph_health_read", !.left = @ - 1])
                ELSE St(<<"registry", "llm_manager">>, IdleClient)
      [] t.ret = "fb" ->
           IF ans THEN St(<<>>, [t EXCEPT !.pc = "fb_generate"])
           ELSE fallback_next(t)

\* Two steps in a row: the guards of both are dropped.
Then(rel, s) == St(rel \o s.rel, s.to)

\* The steps of a call that stands at t.pc, its lock granted or its adapter
\* having answered.
CallSteps(t) ==
    CASE \* AiEngine::process_request, stream_chat: llm_manager.read()
         t.pc = "manager_read" -> {St(<<>>, [t EXCEPT !.pc = "gap_current_read"])}
         \* AiEngine::switch_provider: llm_manager.write()
      [] t.pc = "manager_write" -> {St(<<>>, [t EXCEPT !.pc = "sw_registry_read"])}
         \* get_available_provider: current_provider.read(), held over the check
      [] t.pc = "gap_current_read" ->
            {St(<<>>, [t EXCEPT !.pc = "iph_health_read", !.ret = "gap"])}
         \* is_provider_healthy: a recent entry answers; else the guard is
         \* dropped and perform_health_check runs
      [] t.pc = "iph_health_read" ->
            {Then(<<"health_status">>, healthy_answer(t, ans)) : ans \in BOOLEAN}
            \cup {St(<<"health_status">>, [t EXCEPT !.pc = "phc_registry_read"])}
         \* perform_health_check: registry.read(), health_check(), health_status.write()
      [] t.pc = "phc_registry_read" -> {St(<<>>, [t EXCEPT !.pc = "phc_health_check"])}
      [] t.pc = "phc_health_check" -> {St(<<>>, [t EXCEPT !.pc = "phc_health_write"])}
      [] t.pc = "phc_health_write" ->
            {Then(<<"health_status", "registry">>, healthy_answer(t, ans)) : ans \in BOOLEAN}
         \* auto_select_provider: registry.read(), then the candidates
      [] t.pc = "as_registry_read" ->
            {St(<<>>, [t EXCEPT !.pc = "iph_health_read", !.ret = "as",
                                !.left = ASCandidates])}
      [] t.pc = "as_current_write" ->
            {St(<<"current_provider", "registry">>, [t EXCEPT !.pc = "gen_registry_read"])}
         \* generate / stream_generate: registry.read(), the adapter call
      [] t.pc = "gen_registry_read" -> {St(<<>>, [t EXCEPT !.pc = "gen_generate"])}
      [] t.pc = "gen_generate" ->
            IF t.op = "stream_generate"
            THEN {St(<<"registry", "llm_manager">>, IdleClient)}
            ELSE {St(<<"registry">>, [t EXCEPT !.pc = "engine_current_read"]),
                  St(<<>>, [t EXCEPT !.pc = "fb_registry_read"])}
         \* try_fallback_generation, entered with the guard of generate held
      [] t.pc = "fb_registry_read" ->
            {IF n = 0 THEN St(<<"registry", "registry", "llm_manager">>, IdleClient)
             ELSE St(<<>>, [t EXCEPT !.pc = "iph_health_read", !.ret = "fb", !.left = n])
               : n \in 0..Len(fallback_chain)}
      [] t.pc = "fb_generate" ->
            {St(<<>>, [t EXCEPT !.pc = "fb_current_write"]), fallback_next(t)}
      [] t.pc = "fb_current_write" ->
            {St(<<"current_provider", "registry", "registry">>,
                [t EXCEPT !.pc = "engine_current_read"])}
         \* process_request: manager.current_provider(), then the return
      [] t.pc = "engine_current_read" ->
            {St(<<"current_provider", "llm_manager">>, IdleClient)}
         \* LlmManager::switch_provider
      [] t.pc = "sw_registry_read" ->
            {St(<<"registry", "llm_manager">>, IdleClient),
             St(<<>>, [t EXCEPT !.pc = "sw_health_check"])}
      [] t.pc = "sw_health_check" ->
            {St(<<"registry", "llm_manager">>, IdleClient),
             St(<<>>, [t EXCEPT !.pc = "sw_current_write"])}
      [] t.pc = "sw_current_write" ->
            {St(<<"current_provider", "registry", "llm_manager">>, IdleClient)}

\* The monitoring task goes on after a backend is done.
monitor_next(todo) ==
    IF todo = <<>> THEN AtTick ELSE [pc |-> "mon_registry_read", todo |-> todo]

\* The steps of the monitoring task that stands at m.pc.
MonitorSteps(m) ==
    CASE m.pc = "tick" -> {St(<<>>, [pc |-> "mon_collect", todo |-> <<>>])}
      [] m.pc = "mon_collect" -> {St(<<"registry">>, monitor_next(enabled_providers))}
      [] m.pc = "mon_registry_read" -> {St(<<>>, [m EXCEPT !.pc = "mon_health_check"])}
      [] m.pc = "mon_health_check" -> {St(<<>>, [m EXCEPT !.pc = "mon_health_write"])}
      [] m.pc = "mon_health_write" ->
            {St(<<"health_status", "registry">>, monitor_next(Tail(m.todo)))}

\* The locks after task t, standing at pc, has taken the step s.
LocksAfter(t, pc, s) ==
    LET granted == IF Wants(pc) = <<>> THEN locks ELSE Grant(locks, Wants(pc)[1].lock, t)
        dropped == Release(granted, s.rel, t)
    IN IF Wants(s.to.pc) = <<>> THEN dropped
       ELSE Enqueue(dropped, Wants(s.to.pc)[1].lock, t, Wants(s.to.pc)[1].write)

\* Task t stands at pc and can go on: it waits for no lock, or its lock can
\* be granted.
Ready(t, pc) ==
    IF Wants(pc) = <<>> THEN TRUE ELSE CanGrant(locks, Wants(pc)[1].lock, t)

\* A caller enters one of the engine's calls and asks for the manager.
CallStart(c) ==
    /\ clients[c].pc = "idle"
    /\ \E op \in Ops :
         \E s \in {St(<<>>, Calling(op, IF op = "switch_to" THEN "manager_write"
                                         ELSE "manager_read"))} :
            \E L \in {LocksAfter(c, "idle", s)} :
               /\ locks' = L
               /\ clients' = [clients EXCEPT ![c] = s.to]
    /\ last' = Idle
    /\ UNCHANGED <<Settings, monitor, pipe, ollama, svc, current_provider, health_status,
                   cache, origin>>

\* A call goes on to its next await, or returns.
CallStep(c) ==
    /\ clients[c].pc # "idle"
    /\ Ready(c, clients[c].pc)
    /\ \E s \in CallSteps(clients[c]) :
         \E L \in {LocksAfter(c, clients[c].pc, s)} :
            /\ locks' = L
            /\ clients' = [clients EXCEPT ![c] =
                  IF s.to.pc = "idle" THEN IdleClient
                  ELSE s.to]
            /\ last' = IF s.to.pc = "idle"
                       THEN [Idle EXCEPT !.op = clients[c].op]
                       ELSE Idle
    /\ UNCHANGED <<Settings, monitor, pipe, ollama, svc, current_provider, health_status,
                   cache, origin>>

\* The monitoring task goes on to its next await.
MonitorStep ==
    /\ Ready("monitor", monitor.pc)
    /\ \E s \in MonitorSteps(monitor) :
         /\ locks' = LocksAfter("monitor", monitor.pc, s)
         /\ monitor' = s.to
    /\ last' = Idle
    /\ UNCHANGED <<Settings, pipe, ollama, Engine, svc, current_provider, health_status>>

NextLocks == (\E c \in Clients : CallStart(c) \/ CallStep(c)) \/ MonitorStep

\* One manager whose backends all answer at construction.
InitLocks ==
    /\ iter_order = <<"Ollama", "OpenAI">>
    /\ svc = [p \in ProviderId |-> IF p \in {"Ollama", "OpenAI"}
                                   THEN [probe |-> "Healthy", gen |-> TRUE] ELSE NoSvc]
    /\ InitEngine

\* The runtime runs every task that can go on, and every adapter call
\* returns: a step that stays possible is taken.
SpecLocks ==
    /\ InitLocks
    /\ [][NextLocks]_vars
    /\ \A c \in Clients : WF_vars(CallStep(c))
    /\ WF_vars(MonitorStep)

\* The request cache, filled by requests and by any sequence of cache_response
\* calls.
NextCache == CacheResponse \/ ProcessRequest

SpecCache == InitEngine /\ [][NextCache]_vars

\* n copies of the char ch.
Rep(ch, n) == [i \in 1..n |-> ch]

\* The texts of the fragments fed to the stages: empty, whitespace-only, short,
\* multi-byte, and long enough to count for several tokens.
Texts == {<<>>, <<" ">>, <<"a">>, <<" ", "a">>, <<"U">>,
          Rep("a", 8), Rep("a", 12), Rep("U", 8)}

Items == {OkItem(t) : t \in Texts} \cup {ErrItem}

\* The upstream sequences: every sequence of items up to MaxFragments.
Upstreams == UNION {[1..n -> Items] : n \in 0..MaxFragments}

\* The stages are built over a stream of their own; the manager that handed
\* out the stream takes no further part: one manager, left alone.
InitStandalone ==
    /\ providers = {"Ollama"}
    /\ fallback_chain = <<>>
    /\ svc = [p \in ProviderId |-> IF p = "Ollama" THEN [probe |-> "Healthy", gen |-> TRUE]
                                                    ELSE NoSvc]
    /\ InitManager

\* A stage in state st over `upstream`, before its first poll.
NewPipe(stage, st, upstream) ==
    [stage |-> stage, st |-> st, upstream |-> upstream, out |-> <<>>, ended |-> FALSE]

\* The pipe after a poll of its stage returned r: an item is appended to the
\* output with the number of upstream items consumed so far and whether the
\* upstream was exhausted when it was emitted; Ready(None) ends the output.
Polled(r, exhausted) ==
    [pipe EXCEPT !.st = r.st,
                 !.out = IF r.poll.item = <<>> THEN @
                         ELSE Append(@, [ok |-> r.poll.item[1].ok,
                                         text |-> r.poll.item[1].text,
                                         pulled |-> Len(pipe.upstream) - Len(r.st.inner),
                                         at_end |-> exhausted]),
                 !.ended = r.poll.done]

Manager == <<Config, Engine, svc, current_provider, health_status, last>>

\* TokenStream::with_buffer_size over any upstream, any buffer_size.
InitTokenStream ==
    /\ InitStandalone
    /\ ollama = NoOllama
    /\ \E upstream \in Upstreams, buffer_size \in 0..MaxBufferSize :
          pipe = NewPipe("TokenStream",
                         TokenStream_with_buffer_size(upstream, buffer_size), upstream)

\* The consumer polls the TokenStream until it returns Ready(None).
TokenStreamPoll ==
    /\ pipe.stage = "TokenStream"
    /\ ~pipe.ended
    /\ \E at_hand \in BOOLEAN :
         \E r \in {TokenStream_poll_next(pipe.st, at_hand)} :
            pipe' = Polled(r, at_hand /\ pipe.st.inner = <<>>)
    /\ UNCHANGED <<Manager, ollama>>

SpecTokenStream == InitTokenStream /\ [][TokenStreamPoll]_vars

\* StreamUtils::take_tokens over any upstream, any budget.
InitTakeTokens ==
    /\ InitStandalone
    /\ ollama = NoOllama
    /\ \E upstream \in Upstreams, max_tokens \in 0..MaxTokens :
          pipe = NewPipe("take_tokens", take_tokens(upstream, max_tokens), upstream)

\* The consumer polls the truncated stream until it returns Ready(None).
TakeTokensPoll ==
    /\ pipe.stage = "take_tokens"
    /\ ~pipe.ended
    /\ \E at_hand \in BOOLEAN :
         \E r \in {take_tokens_poll_next(pipe.st, at_hand)} :
            pipe' = Polled(r, at_hand /\ pipe.st.inner = <<>>)
    /\ UNCHANGED <<Manager, ollama>>

SpecTakeTokens == InitTakeTokens /\ [][TakeTokensPoll]_vars

\* The upstreams of the rate-limited stage, which never looks at a text.
RateUpstreams == UNION {[1..n -> {OkItem(<<"a">>), ErrItem}] : n \in 0..MaxFragments}

\* RateLimitedStream::new over any upstream, any whole rate of at least one
\* fragment per second.
InitRateLimited ==
    /\ InitStandalone
    /\ ollama = NoOllama
    /\ \E upstream \in RateUpstreams, tokens_per_second \in 1..MaxRate :
          pipe = [stage |-> "RateLimitedStream",
                  st |-> RateLimitedStream_new(upstream, tokens_per_second),
                  upstream |-> upstream, out |-> <<>>, ended |-> FALSE,
                  tokens_per_second |-> tokens_per_second]

\* The consumer polls the rate-limited stream until it returns Ready(None).
RateLimitedPoll ==
    /\ pipe.stage = "RateLimitedStream"
    /\ ~pipe.ended
    /\ \E at_hand \in BOOLEAN :
         \E r \in {RateLimitedStream_poll_next(pipe.st, at_hand)} :
            pipe' = [pipe EXCEPT !.st = r.st,
                                 !.out = IF r.poll.item = <<>> THEN @
                                         ELSE Append(@, r.poll.item[1]),
                                 !.ended = r.poll.done]
    /\ UNCHANGED <<Manager, ollama>>

\* A millisecond passes: last_emit.elapsed() grows (one second or more is
\* kept as one second).
Millisecond ==
    /\ pipe.stage = "RateLimitedStream"
    /\ ~pipe.ended
    /\ pipe.st.elapsed < MillisPerSecond
    /\ pipe' = [pipe EXCEPT !.st.elapsed = @ + 1]
    /\ UNCHANGED <<Manager, ollama>>

NextRateLimited == RateLimitedPoll \/ Millisecond

SpecRateLimited == InitRateLimited /\ [][NextRateLimited]_vars

\* The fragments "He", "llo", "", " World".
Scenario_D ==
    <<OkItem(<<"H", "e">>), OkItem(<<"l", "l", "o">>), OkItem(<<>>),
      OkItem(<<" ", "W", "o", "r", "l", "d">>)>>

\* The chunks of test_filter_empty: "hello", "", " ", "world", "   ", "!".
test_filter_empty_chunks ==
    <<OkItem(<<"h", "e", "l", "l", "o">>), OkItem(<<>>), OkItem(<<" ">>),
      OkItem(<<"w", "o", "r", "l", "d">>), OkItem(<<" ", " ", " ">>), OkItem(<<"!">>)>>

\* StreamUtils::filter_empty over any upstream.
InitFilterEmpty ==
    /\ InitStandalone
    /\ ollama = NoOllama
    /\ \E upstream \in Upstreams \cup {Scenario_D, test_filter_empty_chunks} :
          pipe = NewPipe("filter_empty", filter_empty(upstream), upstream)

\* The consumer polls the filtered stream until it returns Ready(None).
FilterEmptyPoll ==
    /\ pipe.stage = "filter_empty"
    /\ ~pipe.ended
    /\ \E at_hand \in 0..(Len(pipe.st.inner) + 1) :
         \E r \in {filter_empty_poll_next(pipe.st, at_hand)} :
            pipe' = Polled(r, r.st.inner = <<>>)
    /\ UNCHANGED <<Manager, ollama>>

SpecFilterEmpty == InitFilterEmpty /\ [][FilterEmptyPoll]_vars

\* OllamaProvider::new against any server.
InitOllama ==
    /\ InitStandalone
    /\ pipe = NoPipe
    /\ \E server \in OllamaServer : ollama = [server |-> <<server>>, checked |-> <<>>]

\* health_check of the local adapter is called; the verdict is kept with the
\* server it was obtained from.
OllamaHealthCheck ==
    /\ ollama.server # <<>>
    /\ \E r \in {OllamaProvider_health_check(ollama.server[1])} :
          ollama' = [ollama EXCEPT !.checked = <<[ret |-> r, server |-> ollama.server[1]]>>]
    /\ UNCHANGED <<Manager, pipe>>

\* The server changes one of its answers.
OllamaServerChange ==
    /\ ollama.server # <<>>
    /\ \E server \in OllamaServer :
          /\ Cardinality({f \in DOMAIN server : server[f] # ollama.server[1][f]}) = 1
          /\ ollama' = [ollama EXCEPT !.server = <<server>>]
    /\ UNCHANGED <<Manager, pipe>>

NextOllama == OllamaHealthCheck \/ OllamaServerChange

SpecOllama == InitOllama /\ [][NextOllama]_vars

\* OllamaProvider::with_config with any max_retries; request_with_retries is
\* about to be called.
InitRetry ==
    /\ InitStandalone
    /\ pipe = NoPipe
    /\ \E max_retries \in 0..MaxRetries :
          ollama = [server |-> <<>>, checked |-> <<>>,
                    call |-> request_with_retries(max_retries)]

\* request_with_retries is entered.
RetryCall ==
    /\ ollama.call.pc = "call"
    /\ ollama' = [ollama EXCEPT !.call = retry_loop(@)]
    /\ UNCHANGED <<Manager, pipe>>

\* One attempt: the operation returns.
RetryAttempt ==
    /\ ollama.call.pc = "attempt"
    /\ \E outcome \in AttemptOutcome :
          ollama' = [ollama EXCEPT !.call = retry_attempt(@, outcome)]
    /\ UNCHANGED <<Manager, pipe>>

\* The wait before the next attempt is over.
RetrySleep ==
    /\ ollama.call.pc = "sleep"
    /\ ollama' = [ollama EXCEPT !.call = retry_slept(@)]
    /\ UNCHANGED <<Manager, pipe>>

NextRetry == RetryCall \/ RetryAttempt \/ RetrySleep

SpecRetry == InitRetry /\ [][NextRetry]_vars

\* A network chunk that carries these lines.
BytesChunk(lines) == [ok |-> TRUE, lines |-> lines]

\* The network chunks of the answer: one line or several per chunk, lines with
\* text, the closing line (`done`, empty `response`), blank and unparsable
\* lines, and a transport error.
NetworkChunks ==
    {BytesChunk(<<JsonLine(<<"a">>)>>),
     BytesChunk(<<JsonLine(<<"a">>), JsonLine(<<"b">>)>>),
     BytesChunk(<<BlankLine, JsonLine(<<"b">>)>>),
     BytesChunk(<<MalformedLine, JsonLine(<<"a">>), BlankLine>>),
     BytesChunk(<<JsonLine(<<>>)>>),
     BytesChunk(<<JsonLine(<<"b">>), JsonLine(<<>>)>>),
     [ok |-> FALSE, lines |-> <<>>]}

\* OllamaProvider::stream_generate connected: the answer arrives in any
\* sequence of chunks.
InitOllamaStream ==
    /\ InitStandalone
    /\ ollama = NoOllama
    /\ \E bytes_stream \in UNION {[1..n -> NetworkChunks] : n \in 0..MaxFragments} :
          pipe = NewPipe("ollama_stream", ollama_stream(bytes_stream), bytes_stream)

\* The consumer polls the adapter's stream until it returns Ready(None).
OllamaStreamPoll ==
    /\ pipe.stage = "ollama_stream"
    /\ ~pipe.ended
    /\ \E at_hand \in 0..(Len(pipe.st.inner) + 1) :
         \E r \in {ollama_stream_poll_next(pipe.st, at_hand)} :
            pipe' = Polled(r, r.st.inner = <<>>)
    /\ UNCHANGED <<Manager, ollama>>

SpecOllamaStream == InitOllamaStream /\ [][OllamaStreamPoll]_vars

\* BufferedStream::new over any upstream.
InitBuffered ==
    /\ InitStandalone
    /\ ollama = NoOllama
    /\ \E upstream \in RateUpstreams :
          pipe = NewPipe("BufferedStream", BufferedStream_new(upstream), upstream)

\* The spawned task gets the next item of the upstream, or its end.
BufferedTaskNext ==
    /\ pipe.stage = "BufferedStream"
    /\ pipe.st.task = "next"
    /\ pipe' = [pipe EXCEPT !.st = BufferedStream_task_next(@)]
    /\ UNCHANGED <<Manager, ollama>>

\* The spawned task sends the item it got.
BufferedTaskSend ==
    /\ pipe.stage = "BufferedStream"
    /\ pipe.st.task = "send"
    /\ pipe' = [pipe EXCEPT !.st = BufferedStream_task_send(@)]
    /\ UNCHANGED <<Manager, ollama>>

\* The consumer's next_chunk returns: a chunk of the channel, or None once the
\* channel is empty and the sender is gone.
BufferedNextChunk ==
    /\ pipe.stage = "BufferedStream"
    /\ ~pipe.st.receiver_dropped
    /\ ~pipe.ended
    /\ IF pipe.st.channel # <<>>
       THEN pipe' = [pipe EXCEPT !.st = BufferedStream_next_chunk(@),
                                 !.out = Append(@, Head(pipe.st.channel))]
       ELSE /\ pipe.st.task = "exited"
            /\ pipe' = [pipe EXCEPT !.ended = TRUE]
    /\ UNCHANGED <<Manager, ollama>>

\* The consumer drops the BufferedStream before it has seen its end; the
\* number of upstream items pulled by then is kept.
BufferedDrop ==
    /\ pipe.stage = "BufferedStream"
    /\ ~pipe.st.receiver_dropped
    /\ ~pipe.ended
    /\ pipe' = [pipe EXCEPT !.st.receiver_dropped = TRUE,
                            !.st.pulled_at_drop = Len(pipe.upstream) - Len(pipe.st.inner)]
    /\ UNCHANGED <<Manager, ollama>>

NextBuffered == BufferedTaskNext \/ BufferedTaskSend \/ BufferedNextChunk \/ BufferedDrop

SpecBuffered == InitBuffered /\ [][NextBuffered]_vars

\* ================================================================ claims
\* The cached verdict of p is younger than the TTL.
YoungerThanTtl(p) ==
    health_status[p].status # "None" /\ health_status[p].elapsed < HealthCheckInterval

\* p is available per the health cache: the cached verdict while it is young,
\* else the verdict a health check of p obtains now.  A handler never changes
\* this value: it only replaces an old entry by the verdict obtained now.
AvailNow(p) ==
    IF YoungerThanTtl(p)
    THEN health_status[p].status \in {"Healthy", "Degraded"}
    ELSE svc[p].probe \in {"Healthy", "Degraded"}

Min(S) == CHOOSE x \in S : \A y \in S : x <= y

\* The ids of a sequence of logged adapter calls.
Ids(calls) == [i \in 1..Len(calls) |-> calls[i].id]

\* The error the caller sees when no backend can serve.
SeesNoProviderAvailable(r) ==
    /\ ~r.ok
    /\ r.err.variant = "LlmProvider"
    /\ r.err.message = "no AI provider is currently available"

\* The alternates of a failed backend f: the entries of the fallback order
\* other than f that are registered and available.
Alternates(f) ==
    SelectSeq(fallback_chain, LAMBDA p : p # f /\ p \in providers /\ AvailNow(p))

\* The non-local entries of the fallback order.
FallbackBackends == SelectSeq(fallback_chain, LAMBDA p : p # "Ollama")

\* C1: when the selected backend's generate fails, generate is called on the
\* registered and available entries of the fallback order other than the
\* failed one, in order, up to the first that succeeds; its text is returned
\* and it becomes the current backend.  With the local backend and the first
\* fallback unavailable and the second fallback available and generating, the
\* second fallback's text is returned and it is the current backend.
C1_FallbackWalk ==
    last.op = "generate" =>
      /\ (last.gens # <<>> /\ ~last.gens[1].ok) =>
            LET f == last.gens[1].id
                alts == Alternates(f)
                winners == {k \in 1..Len(alts) : svc[alts[k]].gen}
            IN IF winners = {}
               THEN /\ SeesNoProviderAvailable(last.ret)
                    /\ Ids(last.gens) = <<f>> \o alts
               ELSE /\ last.ret.ok
                    /\ last.ret.text = Text(alts[Min(winners)], last.arg)
                    /\ current_provider = alts[Min(winners)]
                    /\ Ids(last.gens) = <<f>> \o SubSeq(alts, 1, Min(winners))
      /\ ( /\ "Ollama" \in providers
           /\ Len(FallbackBackends) = 2
           /\ Range(FallbackBackends) \subseteq providers
           /\ ~AvailNow("Ollama")
           /\ ~AvailNow(FallbackBackends[1])
           /\ AvailNow(FallbackBackends[2])
           /\ svc[FallbackBackends[2]].gen )
         => /\ last.ret.ok
            /\ last.ret.text = Text(FallbackBackends[2], last.arg)
            /\ current_provider = FallbackBackends[2]

\* C1 witness: the current backend and the first alternate failed, the second
\* alternate served the request and is now current.
C1_Witness ==
    /\ last.op = "generate"
    /\ Len(last.gens) = 3
    /\ ~last.gens[1].ok /\ ~last.gens[2].ok /\ last.gens[3].ok
    /\ last.ret.ok
    /\ current_provider = last.gens[3].id

\* Scenario B is reached: local and first fallback unavailable, the second
\* fallback served.
C1_ScenarioB ==
    /\ last.op = "generate"
    /\ providers = ProviderId
    /\ ~AvailNow("Ollama") /\ ~AvailNow(FallbackBackends[1])
    /\ svc[FallbackBackends[2]].probe = "Healthy"
    /\ last.ret.ok
    /\ last.ret.text = Text(FallbackBackends[2], last.arg)

\* C2 as claimed: whenever some registered and enabled backend other than the
\* one that failed is available and would generate, generate succeeds.
C2_AnyBackendRescues ==
    ( /\ last.op = "generate"
      /\ last.gens # <<>>
      /\ ~last.gens[1].ok
      /\ \E q \in providers : /\ registry_is_enabled(q)
                              /\ q # last.gens[1].id
                              /\ AvailNow(q)
                              /\ svc[q].gen )
    => last.ret.ok

\* C2 amended: whenever some entry of the fallback order other than the
\* backend that failed is registered, available and would generate, generate
\* returns a text and the first failure is not shown to the caller; when
\* generate fails after a backend failure, the caller sees NoProviderAvailable.
C2_ChainBackendRescues ==
    ( /\ last.op = "generate"
      /\ last.gens # <<>>
      /\ ~last.gens[1].ok )
    => /\ ( \E q \in Range(fallback_chain) : /\ q \in providers
                                             /\ q # last.gens[1].id
                                             /\ AvailNow(q)
                                             /\ svc[q].gen )
          => (last.ret.ok /\ last.ret.err = NoErr /\ last.ret.text # None)
       /\ ~last.ret.ok => SeesNoProviderAvailable(last.ret)

\* C2 witness: the first backend failed, an alternate of the chain served.
C2_Witness ==
    /\ last.op = "generate"
    /\ Len(last.gens) >= 2
    /\ ~last.gens[1].ok
    /\ last.ret.ok
    /\ last.ret.id # last.gens[1].id

\* Every enabled backend is unavailable per the health cache.
NoneAvailable == \A p \in providers : registry_is_enabled(p) => ~AvailNow(p)

\* The call made no adapter call other than health checks.
OnlyHealthChecks == last.gens = <<>> /\ last.streams = <<>>

\* C6 as claimed: if the health check of every enabled backend returns
\* Unhealthy, generate fails with NoProviderAvailable and calls no adapter's
\* generate or stream_generate.
C6_AllProbesUnhealthy ==
    ( /\ last.op = "generate"
      /\ \A p \in providers : registry_is_enabled(p) => svc[p].probe = "Unhealthy" )
    => (SeesNoProviderAvailable(last.ret) /\ OnlyHealthChecks)

\* C6 amended: if every enabled backend is unavailable per the health cache (a
\* cached verdict younger than the TTL that is Unhealthy, or no such entry and
\* a health check that returns Unhealthy or fails), generate fails with
\* NoProviderAvailable and calls no adapter's generate or stream_generate.
C6_Exhaustion ==
    (last.op = "generate" /\ NoneAvailable)
    => (SeesNoProviderAvailable(last.ret) /\ OnlyHealthChecks)

\* C6 witness: generate failed that way with two backends registered, after at
\* least one health check was made.
C6_Witness ==
    /\ last.op = "generate"
    /\ NoneAvailable
    /\ Cardinality(providers) >= 2
    /\ last.probes # <<>>
    /\ SeesNoProviderAvailable(last.ret)

\* The call that has just returned is a selection (the one LlmManager::new
\* runs, or a later one).
IsSelection == last.op \in {"select", "new"}

\* The runtime counts as local: the environment is Development, or the local
\* adapter reports is_available(), which it always does once it exists.  The
\* CODEV_LOCAL marker only adds a third way to count as local.
RuntimeIsLocal == environment = "Development" \/ "Ollama" \in providers

\* Step 1 yields the local backend.
LocalYields == RuntimeIsLocal /\ "Ollama" \in providers /\ AvailNow("Ollama")

\* The positions of the fallback order whose entry is registered, enabled and
\* available.
ChainCandidates ==
    {i \in 1..Len(fallback_chain) :
        /\ fallback_chain[i] \in providers
        /\ registry_is_enabled(fallback_chain[i])
        /\ AvailNow(fallback_chain[i])}

\* C3: when the runtime counts as local and the local backend is registered
\* and available per the health cache, selection returns it and installs it
\* as the current backend, wherever it stands in the fallback order.
C3_LocalFirst ==
    (IsSelection /\ LocalYields)
    => /\ last.ret.ok
       /\ last.ret.id = "Ollama"
       /\ current_provider = "Ollama"

\* C3 witness: the local backend was selected although the fallback order
\* starts with another registered, available backend.
C3_Witness ==
    /\ last.op = "select"
    /\ last.ret.id = "Ollama"
    /\ current_provider = "Ollama"
    /\ fallback_chain # <<>>
    /\ fallback_chain[1] # "Ollama"
    /\ fallback_chain[1] \in providers
    /\ AvailNow(fallback_chain[1])

\* Scenario A is reached: only the local backend is registered, it is Healthy,
\* and selection returned it.
C3_ScenarioA ==
    /\ last.op = "select"
    /\ providers = {"Ollama"}
    /\ health_status["Ollama"].status = "Healthy"
    /\ last.ret.id = "Ollama"

\* C4: when step 1 does not select the local backend, selection returns the
\* first entry of the fallback order that is registered, enabled and
\* available; no selection returns an unregistered, disabled or unavailable
\* backend.
C4_ChainOrder ==
    IsSelection =>
      /\ (~LocalYields /\ ChainCandidates # {}) =>
            /\ last.ret.ok
            /\ last.ret.id = fallback_chain[Min(ChainCandidates)]
            /\ current_provider = fallback_chain[Min(ChainCandidates)]
      /\ last.ret.ok =>
            /\ last.ret.id \in providers
            /\ registry_is_enabled(last.ret.id)
            /\ AvailNow(last.ret.id)

\* C4 witness: the first entry of the chain is not registered and was
\* skipped, the second one was selected.
C4_Witness ==
    /\ last.op = "select"
    /\ ~LocalYields
    /\ Len(fallback_chain) = 2
    /\ fallback_chain[1] \notin providers
    /\ last.ret.ok
    /\ last.ret.id = fallback_chain[2]

\* C5 as claimed: when neither the local-first step nor the fallback order
\* yields a backend, selection returns the first available backend among the
\* enabled backends taken in registration order.
C5_RegistrationOrder ==
    (IsSelection /\ ~LocalYields /\ ChainCandidates = {}) =>
      LET avail == {i \in 1..Len(reg_order) :
                       registry_is_enabled(reg_order[i]) /\ AvailNow(reg_order[i])}
      IN avail # {} => (last.ret.ok /\ last.ret.id = reg_order[Min(avail)])

\* The call that has just returned is a streaming request, or the pull of the
\* sequence it returned to its end.
IsStream == last.op \in {"stream_generate", "stream_end"}

\* The backends a request may resolve to when pre is the current backend: pre
\* itself if it is available, else what selection yields.
ResolvesTo(pre) ==
    IF AvailNow(pre) THEN {pre}
    ELSE IF LocalYields THEN {"Ollama"}
    ELSE IF ChainCandidates # {} THEN {fallback_chain[Min(ChainCandidates)]}
    ELSE {p \in providers : registry_is_enabled(p) /\ AvailNow(p)}

\* The result is the error of the adapter itself.
SeesAdapterError(r) == ~r.ok /\ r.err.variant = "Adapter"

\* C7: stream_generate resolves one backend (the current one if it is
\* available, otherwise the result of selection) and returns that backend's
\* stream_generate result as it is; whether that call fails or the returned
\* sequence later yields an error, no generate and no second stream_generate
\* is called for the request, and the current backend stays the resolved one
\* (the one before the call, when that one is available).
C7_StreamNoFallback ==
    IsStream =>
      LET pre == last.hq[1].id
      IN /\ last.gens = <<>>
         /\ Len(last.streams) <= 1
         /\ ResolvesTo(pre) = {} =>
               /\ last.streams = <<>>
               /\ SeesNoProviderAvailable(last.ret)
               /\ current_provider = pre
         /\ ResolvesTo(pre) # {} =>
               /\ Len(last.streams) = 1
               /\ last.streams[1].id \in ResolvesTo(pre)
               /\ current_provider = last.streams[1].id
               /\ IF \/ last.streams[1].outcome = "fail"
                     \/ last.streams[1].outcome = "midErr" /\ last.op = "stream_end"
                  THEN SeesAdapterError(last.ret)
                  ELSE /\ last.ret.ok
                       /\ last.ret.text = Text(last.streams[1].id, last.arg)

\* C7 witness: the current backend was available, its stream_generate failed
\* although an alternate of the fallback order is available and would
\* generate; the error is returned and the current backend is the same.
C7_Witness ==
    /\ last.op = "stream_generate"
    /\ Len(last.streams) = 1
    /\ last.streams[1].outcome = "fail"
    /\ last.streams[1].id = last.hq[1].id
    /\ SeesAdapterError(last.ret)
    /\ current_provider = last.streams[1].id
    /\ Len(Alternates(current_provider)) > 0
    /\ svc[Alternates(current_provider)[1]].gen

\* A sequence that yields an error after it was returned is reached: the
\* request went to a backend found by selection, an alternate is available.
C7_MidStream ==
    /\ last.op = "stream_end"
    /\ last.streams[1].outcome = "midErr"
    /\ last.streams[1].id # last.hq[1].id
    /\ Len(Alternates(current_provider)) > 0

\* C8: switch_provider(id) makes one health check of id, not answered from
\* the health cache: when it returns Healthy or Degraded the call succeeds and
\* the current backend is id; when it returns Unhealthy, or id is not
\* registered and enabled, the call fails with an error that names id and the
\* current backend is the one before the call.
C8_SwitchTo ==
    [][ last'.op = "switch_provider" =>
          LET id == last'.arg
              known == id \in providers /\ registry_is_enabled(id)
          IN /\ last'.gens = <<>> /\ last'.streams = <<>> /\ last'.hq = <<>>
             /\ known => (Len(last'.probes) = 1 /\ last'.probes[1].id = id)
             /\ ~known => last'.probes = <<>>
             /\ (known /\ svc[id].probe \in {"Healthy", "Degraded"}) =>
                   (last'.ret.ok /\ current_provider' = id)
             /\ (~known \/ svc[id].probe = "Unhealthy") =>
                   /\ ~last'.ret.ok
                   /\ last'.ret.err.provider = id
                   /\ current_provider' = current_provider
             /\ ~last'.ret.ok => current_provider' = current_provider
      ]_vars

\* C8 witness: a switch to a registered backend other than the current one was
\* rejected because its health check returned Unhealthy, while the health
\* cache still holds a young available verdict for it.
C8_Witness ==
    /\ last.op = "switch_provider"
    /\ last.arg \in providers
    /\ last.arg # current_provider
    /\ Len(last.probes) = 1
    /\ last.probes[1].outcome = "Unhealthy"
    /\ ~last.ret.ok
    /\ last.ret.err.provider = last.arg
    /\ YoungerThanTtl(last.arg)
    /\ health_status[last.arg].status = "Healthy"

\* A switch to a Degraded backend that succeeded is reached.
C8_DegradedAccepted ==
    /\ last.op = "switch_provider"
    /\ Len(last.probes) = 1
    /\ last.probes[1].outcome = "Degraded"
    /\ last.ret.ok
    /\ current_provider = last.arg

\* The ids of the is_provider_healthy calls of the log that made a health check.
Misses(hq) == SelectSeq(hq, LAMBDA c : ~c.hit)

\* C9: each is_provider_healthy(id) of a call answers from the cached entry of
\* id when that entry is younger than 60 s, with that verdict's availability
\* and without a health check; otherwise it makes one health check of id,
\* stores its verdict with age 0 and answers with that verdict's
\* availability.  Entries of other ids are left as they are.
C9_HealthCache ==
    [][ last'.op = "generate" =>
          /\ \A k \in 1..Len(last'.hq) :
                LET id == last'.hq[k].id
                    checkedBefore == \E j \in 1..(k - 1) :
                                        last'.hq[j].id = id /\ ~last'.hq[j].hit
                    verdictNow == svc[id].probe \in {"Healthy", "Degraded"}
                IN IF checkedBefore
                   THEN last'.hq[k].hit /\ last'.hq[k].ans = verdictNow
                   ELSE IF YoungerThanTtl(id)
                        THEN /\ last'.hq[k].hit
                             /\ last'.hq[k].ans =
                                   (health_status[id].status \in {"Healthy", "Degraded"})
                        ELSE ~last'.hq[k].hit /\ last'.hq[k].ans = verdictNow
          /\ Ids(last'.probes) = Ids(Misses(last'.hq))
          /\ \A id \in ProviderId :
                IF \E k \in 1..Len(last'.hq) : last'.hq[k].id = id /\ ~last'.hq[k].hit
                THEN /\ health_status'[id].elapsed = 0
                     /\ health_status'[id].status =
                           (IF svc[id].probe = "Err" THEN "Unhealthy" ELSE svc[id].probe)
                ELSE health_status'[id] = health_status[id]
      ]_vars

\* C9 witness: one call was answered from a young cached entry for one backend
\* and made a health check for another, which had no young entry.
C9_Witness ==
    /\ last.op = "generate"
    /\ \E i, j \in 1..Len(last.hq) :
          /\ last.hq[i].hit
          /\ ~last.hq[j].hit
          /\ last.hq[i].id # last.hq[j].id
    /\ Len(last.probes) = 1

\* Two requests agree on prompt, task type, temperature and maximal length.
SameFingerprint(a, b) ==
    /\ a.prompt = b.prompt
    /\ a.task_type = b.task_type
    /\ a.temperature = b.temperature
    /\ a.max_tokens = b.max_tokens

\* C10: a request that agrees on prompt, task type, temperature and maximal
\* length with an earlier successful request whose entry is still in the
\* cache returns the content of that entry, no adapter is called for it and
\* the cache is left as it is, whatever its priority.
C10_CacheHit ==
    [][ last'.op = "process_request" =>
          \A k \in DOMAIN cache :
             SameFingerprint(origin[k], last'.arg) =>
                /\ last'.ret.ok
                /\ last'.ret.text = cache[k].content
                /\ last'.gens = <<>> /\ last'.streams = <<>> /\ last'.probes = <<>>
                /\ cache' = cache
      ]_vars

\* C10 witness: a request was served from the entry of a request of another
\* priority, with content of a backend that is no longer the current one.
C10_Witness ==
    /\ last.op = "process_request"
    /\ last.ret.ok
    /\ last.gens = <<>>
    /\ \E k \in DOMAIN cache :
          /\ SameFingerprint(origin[k], last.arg)
          /\ origin[k].priority # last.arg.priority
          /\ cache[k].content = last.ret.text
          /\ cache[k].provider # current_provider

C12_RecordedProvider ==
    last.op = "response" => last.ret.text = Text(last.ret.id, last.arg.prompt)

\* The upstream delivers no error.
ErrorFree(items) == \A i \in 1..Len(items) : items[i].ok

\* The texts of a sequence of items, joined in order.
RECURSIVE Joined(_)
Joined(items) == IF items = <<>> THEN <<>> ELSE Head(items).text \o Joined(Tail(items))

\* C13: over an upstream that ends without error, every fragment the buffering
\* stage emits except possibly the last is at least buffer_size bytes long, the
\* only fragment emitted at exhaustion is the non-empty remainder, and once the
\* output has ended the emitted fragments joined are the upstream fragments
\* joined.
C13_Buffering ==
    ErrorFree(pipe.upstream) =>
      /\ \A i \in 1..Len(pipe.out) :
            /\ pipe.out[i].ok
            /\ i < Len(pipe.out) => len(pipe.out[i].text) >= pipe.st.buffer_size
            /\ pipe.out[i].at_end => i = Len(pipe.out) /\ pipe.out[i].text # <<>>
      /\ pipe.ended => Joined(pipe.out) = Joined(pipe.upstream)

\* A first fragment reached the threshold, and the upstream ended with a
\* shorter remainder in the buffer, which was flushed.
C13_Witness ==
    /\ ErrorFree(pipe.upstream)
    /\ pipe.ended
    /\ Len(pipe.out) >= 2
    /\ pipe.out[Len(pipe.out)].at_end
    /\ len(pipe.out[Len(pipe.out)].text) < pipe.st.buffer_size

\* The approximate token count of a text: max(1, floor(byte length / 4)).
ApproxTokens(text) == IF len(text) >= 8 THEN len(text) \div 4 ELSE 1

\* The sum of the approximate token counts of the text fragments of a sequence.
RECURSIVE TokensOf(_)
TokensOf(items) ==
    IF items = <<>> THEN 0
    ELSE (IF Head(items).ok THEN ApproxTokens(Head(items).text) ELSE 0) + TokensOf(Tail(items))

\* C14: the approximate token counts of the fragments take_tokens emits sum
\* to at most the budget, a clipped fragment included.
C14_Budget == TokensOf(pipe.out) <= pipe.st.max_tokens

\* The i-th emitted fragment is a clipped upstream fragment.
Clipped(i) ==
    /\ pipe.out[i].ok
    /\ pipe.out[i].text # pipe.upstream[pipe.out[i].pulled].text

\* C15: once take_tokens has emitted the clipped fragment, nothing is emitted
\* after it and no further upstream fragment is pulled.
C15_Termination ==
    \A i \in 1..Len(pipe.out) :
       Clipped(i) => /\ i = Len(pipe.out)
                     /\ Len(pipe.upstream) - Len(pipe.st.inner) = pipe.out[i].pulled

\* C16: any two consecutive emissions of the rate-limited stage with target T
\* fragments per second are at least 1/T seconds apart: when the stage emits
\* a fragment after an earlier one, the time since the earlier one, in
\* milliseconds, times T is at least 1000.
C16_RateLimit ==
    [][ (Len(pipe.out) >= 1 /\ Len(pipe'.out) = Len(pipe.out) + 1)
        => pipe.st.elapsed * pipe.tokens_per_second >= 1000 ]_vars

\* The text is zero-length or whitespace-only.
Blank(text) == \A j \in 1..Len(text) : text[j] = " "

\* The upstream sequence without its blank text fragments.
WithoutBlanks(items) == SelectSeq(items, LAMBDA it : ~it.ok \/ ~Blank(it.text))

\* The items emitted so far.
Emitted == [i \in 1..Len(pipe.out) |-> [ok |-> pipe.out[i].ok, text |-> pipe.out[i].text]]

C17_ScenarioD == pipe.ended /\ pipe.upstream = Scenario_D

FoldedEntry == [status |-> "Unhealthy", elapsed |-> 0]

\* C19: a health_check that returns an error is never returned to the caller
\* of the manager: in a selection's refresh, in switch_provider and in the
\* background sweep the cache entry of that backend becomes Unhealthy with
\* age 0.
C19_ErrorFolded ==
    [][ /\ last'.op \in {"select", "switch_provider"} =>
             \A k \in 1..Len(last'.probes) :
                last'.probes[k].outcome = "Err" =>
                   /\ last'.ret.ok \/ last'.ret.err.variant # "Adapter"
                   /\ health_status'[last'.probes[k].id] = FoldedEntry
        /\ HealthSweep =>
             \A p \in providers : svc[p].probe = "Err" => health_status'[p] = FoldedEntry
      ]_vars

\* The probe of the server failed: the service is unreachable, the model list
\* cannot be fetched, or the configured model is missing and its fetch failed.
ProbeFailed(server) ==
    \/ server.tags # "success"
    \/ server.models = "error"
    \/ /\ server.models = "missing"
       /\ \/ server.models_again = "error"
          \/ server.models_again = "missing" /\ server.pull # "success"

\* C20: the local adapter's health_check never returns an error, and whenever
\* its probe failed the verdict is Unhealthy, hence not available.
C20_FailuresUnhealthy ==
    \A c \in Range(ollama.checked) :
       /\ c.ret.ok
       /\ ProbeFailed(c.server) =>
             (c.ret.status = "Unhealthy" /\ c.ret.status \notin {"Healthy", "Degraded"})

\* The number of upstream items the stage has pulled.
Pulled == Len(pipe.upstream) - Len(pipe.st.inner)

\* The index of the first error of the upstream (0 if there is none).
FirstError(items) ==
    IF ErrorFree(items) THEN 0
    ELSE CHOOSE i \in 1..Len(items) : ~items[i].ok /\ \A j \in 1..(i - 1) : items[j].ok

\* C27: when the upstream of the buffering stage yields an error, the stage
\* emits that error as its next fragment; the text buffered before it is never
\* emitted (the fragments emitted before the error and the buffer make up the
\* upstream text before the error); nothing is pulled or emitted afterwards
\* and the stage is complete.
C27_MidStreamError ==
    LET e == FirstError(pipe.upstream)
    IN /\ e # 0 => Pulled <= e
       /\ (e # 0 /\ Pulled = e) =>
             /\ pipe.out # <<>>
             /\ ~pipe.out[Len(pipe.out)].ok
             /\ pipe.st.complete
       /\ \A i \in 1..Len(pipe.out) :
             ~pipe.out[i].ok =>
                /\ i = Len(pipe.out)
                /\ pipe.out[i].pulled = e
                /\ \A j \in 1..(i - 1) : pipe.out[j].ok
                /\ Joined(SubSeq(pipe.out, 1, i - 1)) \o pipe.st.buffer
                      = Joined(SubSeq(pipe.upstream, 1, e - 1))

\* An error arrived while text was buffered below the threshold; the stage
\* emitted the error and then ended.
C27_Witness ==
    /\ pipe.ended
    /\ pipe.out # <<>>
    /\ ~pipe.out[Len(pipe.out)].ok
    /\ pipe.st.buffer # <<>>
    /\ len(pipe.st.buffer) < pipe.st.buffer_size

\* C23: a generate call that failed on the backend f it was dispatched to
\* leaves the health-cache entry of f as the selection before the call found
\* or made it (a young available verdict), and, when every fallback failed as
\* well, leaves f the current backend; the next generate call, issued before
\* the entry gets old, is dispatched first to f again.
C23_FailureLeavesNoTrace ==
    [][ /\ (last'.op = "generate" /\ last'.gens # <<>> /\ ~last'.gens[1].ok) =>
             LET f == last'.gens[1].id
             IN /\ health_status'[f] =
                      (IF YoungerThanTtl(f) THEN health_status[f]
                       ELSE [status |-> svc[f].probe, elapsed |-> 0])
                /\ health_status'[f].status \in {"Healthy", "Degraded"}
                /\ health_status'[f].elapsed < HealthCheckInterval
                /\ ~last'.ret.ok => current_provider' = f
        /\ (/\ last.op = "generate" /\ last.gens # <<>> /\ ~last.ret.ok
            /\ last'.op = "generate") =>
             (last'.gens # <<>> /\ last'.gens[1].id = last.gens[1].id)
      ]_vars

\* A call found the current backend available in a young cache entry, was
\* dispatched to it, failed there and on a fallback, and the backend is still
\* current with that entry.
C23_Witness ==
    /\ last.op = "generate"
    /\ ~last.ret.ok
    /\ Len(last.gens) >= 2
    /\ last.hq # <<>> /\ last.hq[1].hit /\ last.hq[1].id = last.gens[1].id
    /\ current_provider = last.gens[1].id
    /\ YoungerThanTtl(current_provider)
    /\ health_status[current_provider].status = "Healthy"

\* C29: the generate or stream_generate call that follows a successful
\* switch_provider(p) is dispatched first to p.
C29_SwitchThenDispatch ==
    [][ (last.op = "switch_provider" /\ last.ret.ok) =>
          /\ last'.op = "generate" =>
                (last'.gens # <<>> /\ last'.gens[1].id = last.arg)
          /\ last'.op = "stream_generate" =>
                (last'.streams # <<>> /\ last'.streams[1].id = last.arg)
      ]_vars

\* The attempts of the call that failed.
FailedAttempts == SelectSeq(ollama.call.attempts, LAMBDA o : o # "Ok")

\* C24: request_with_retries makes at most max_retries attempts and none
\* after a success; the wait after the k-th failed attempt is k x 1000 ms and
\* there are as many waits as failed attempts that were not the max_retries-th;
\* a call that returns an error has made max_retries attempts, all failed, and
\* returns the error of the last one; a call that returns Ok does so on its
\* first successful attempt.
C24_Retry ==
    LET c == ollama.call
        n == Len(c.attempts)
    IN /\ n <= c.max_retries
       /\ \A i \in 1..(n - 1) : c.attempts[i] # "Ok"
       /\ \A k \in 1..Len(c.sleeps) : c.sleeps[k] = k * 1000
       /\ Len(c.sleeps) <= Len(FailedAttempts)
       /\ c.pc \in {"attempt", "returned"} =>
             Len(c.sleeps) = Cardinality({k \in 1..Len(FailedAttempts) : k < c.max_retries})
       /\ (c.pc = "returned" /\ c.ret = <<"Ok">>) => (n >= 1 /\ c.attempts[n] = "Ok")
       /\ (c.pc = "returned" /\ c.ret # <<"Ok">>) =>
             /\ n = c.max_retries
             /\ Len(FailedAttempts) = n
             /\ c.ret = <<c.attempts[n]>>

\* Three attempts failed with different errors, the waits were made, and the
\* call returned the error of the last attempt.
C24_Witness ==
    /\ ollama.call.pc = "returned"
    /\ ollama.call.max_retries = 3
    /\ ollama.call.attempts = <<"NetworkTimeout", "NetworkTimeout", "ServerError">>
    /\ ollama.call.sleeps = <<1000, 2000>>
    /\ ollama.call.ret = <<"ServerError">>

\* C25: for every max_retries, 0 included, request_with_retries makes at
\* least one attempt and returns a result: it never aborts.
C25_AlwaysResult ==
    /\ ollama.call.pc # "panicked"
    /\ ollama.call.pc = "returned" => Len(ollama.call.attempts) >= 1

\* The `response` fields of the JSON lines of a chunk, joined in order.
RECURSIVE ResponsesOf(_)
ResponsesOf(lines) ==
    IF lines = <<>> THEN <<>>
    ELSE (IF Head(lines).json THEN Head(lines).response ELSE <<>>) \o ResponsesOf(Tail(lines))

\* The `response` fields received in a sequence of chunks, joined in order.
RECURSIVE Received(_)
Received(chunks) ==
    IF chunks = <<>> THEN <<>>
    ELSE (IF Head(chunks).ok THEN ResponsesOf(Head(chunks).lines) ELSE <<>>)
         \o Received(Tail(chunks))

\* C26: the fragments the local adapter's stream has emitted, joined, are the
\* `response` fields of all JSON lines of the chunks pulled so far, joined in
\* arrival order.
C26_StreamText ==
    Joined(pipe.out) = Received(SubSeq(pipe.upstream, 1, Pulled))

\* C28: after the consumer has dropped a BufferedStream before exhaustion, no
\* further fragment is pulled from the upstream.
C28_Cancellation ==
    pipe.st.receiver_dropped => Pulled = pipe.st.pulled_at_drop

\* C21: a backend installed by one request since another request read the
\* current backend is never replaced by the selection that other request
\* computed after that read.
C21_NoLostUpdate ==
    [][ \A c \in Clients :
          (/\ clients[c].pc = "write"
           /\ clients'[c].pc = "dispatch"
           /\ clients[c].overtaken) => current_provider' = current_provider ]_vars

\* C22: the verdict of a probe is never stored after the verdict of a newer
\* probe of the same backend has been stored: the stored verdict is not
\* changed by, and gets no later timestamp from, a superseded verdict.
C22_NewestVerdictStays ==
    [][ /\ \A c \in Clients :
             (clients[c].pc = "insert" /\ clients'[c].pc = "idle") =>
                (~clients[c].superseded
                 \/ health_status'[clients[c].id].status
                      = health_status[clients[c].id].status)
        /\ (monitor.pc = "insert" /\ monitor'.pc # "insert") =>
                (~monitor.superseded
                 \/ health_status'[monitor.id].status = health_status[monitor.id].status)
      ]_vars

\* C30: every generate, stream_generate and switch_to call that has been
\* entered eventually returns, whatever the other calls and the monitoring
\* task do.
C30_CallsReturn ==
    \A c \in Clients : (clients[c].pc # "idle") ~> (clients[c].pc = "idle")

\* A generate call has returned while the
\* switch_to of the other caller waits for the manager's write guard and the
\* monitoring task holds a verdict to store.
C30_Witness ==
    /\ last.op = "generate"
    /\ \E c \in Clients : clients[c].pc = "manager_write"
    /\ monitor.pc = "mon_health_write"

====
